---- MODULE Spec2Model ----
(***************************************************************************)
(* A model of query_github.py: the GraphQL pagination engine               *)
(* (_fetch_paginated_gql_data) and the repository aggregator               *)
(* (fetch_repos_full_graphql), run against an upstream that holds a list   *)
(* of repositories, each with a branch sequence and a tag sequence, and    *)
(* serves them page by page.                                               *)
(***************************************************************************)
EXTENDS Integers, Sequences, FiniteSets, TLC

\* ------------------------------------------------------------------ bounds

\* Longest branch or tag sequence a repository of the upstream holds.
MaxRefs == 3
\* Largest page size (GRAPHQL_PAGE_SIZE is read from the environment).
MaxPageSize == 2
\* Longest branch or tag sequence of an upstream whose pageInfo is wrong in
\* one place.
MaxLyingRefs == 2
\* Requests a run may issue against such an upstream (the run need not end;
\* an accurate upstream bounds the run by itself).
MaxRequests == 6
\* Largest max_retries _github_graphql is called with.
MaxRetriesArg == 3
\* Calls of _github_graphql in a row.
MaxGqlCalls == 2
\* Longest previous content of a branch file, in characters.
MaxTextLen == 2
\* Longest branch list persist_branches is given.
MaxBranches == 2
\* Calls of a persist function in a row, with the same mapping.
MaxPersistCalls == 2
\* Longest list of records persist_branch_json or persist_tag_json is given
\* for a repository.
MaxRecords == 2

\* MAX_RETRIES, the default of max_retries.
MAX_RETRIES == 3

\* The repository names of the upstream.
RepoNames == {"r1", "r2"}

\* ------------------------------------------------------- Python primitives

\* Python's None, here the absent cursor; a cursor is the one-element tuple
\* of the position it stands for, which only the upstream interprets.
None == <<>>
Cur(k) == <<k>>

\* The empty dict {}.
EmptyDict == [k \in {} |-> None]

\* dict.get(key, default)
Get(d, key, default) == IF key \in DOMAIN d THEN d[key] ELSE default

\* v or default, for a v that is a dict or None: None and the empty dict
\* are both false.
Or(v, default) == IF v = None \/ v = EmptyDict THEN default ELSE v

\* d[key] = value on a dict
Put(d, key, value) ==
    [k \in DOMAIN d \cup {key} |-> IF k = key THEN value ELSE d[k]]

\* A value of a field that comes in more than one Python type, with its
\* type: a str or a dict (None is the null).
PyStr(s) == [type |-> "str", value |-> s]
PyDict(d) == [type |-> "dict", value |-> d]

\* isinstance(v, dict)
IsInstanceDict(v) == v # None /\ v.type = "dict"

Min(a, b) == IF a < b THEN a ELSE b

\* --------------------------------------------------------------- upstream

\* The target of a ref that points to a commit, and the target of an
\* annotated tag: a tag object that wraps the commit.
CommitTarget(n) ==
    [oid |-> 10 + n, committedDate |-> 20 + n, messageHeadline |-> 30 + n]
AnnotatedTarget(n) ==
    [oid |-> 40 + n, message |-> 50 + n, target |-> CommitTarget(n)]

\* A ref node as the upstream sends it: the name and the target. The first
\* tag of a repository is an annotated tag; the third ref comes without a
\* target.
RefNode(kind, n) ==
    IF n = 3 THEN [name |-> n]
    ELSE IF kind = "tags" /\ n = 2 THEN [name |-> n, target |-> AnnotatedTarget(n)]
    ELSE [name |-> n, target |-> CommitTarget(n)]

\* The name of the i-th ref of a sequence: names are unique within a
\* repository and kind, and the upstream's order is not the sorted one.
RefName(i) == IF i = 1 THEN 2 ELSE IF i = 2 THEN 1 ELSE i

\* The ref sequences a repository may hold.
RefSeq(kind, n) == [i \in 1..n |-> RefNode(kind, RefName(i))]
RefSeqs(kind, max) == {RefSeq(kind, n) : n \in 0..max}
LyingRefSeqs(kind) == {RefSeq(kind, 0), RefSeq(kind, MaxLyingRefs)}

\* What the upstream holds for one repository. omitTags: the upstream leaves
\* the inline tag sample of the repository query empty although tags exist.
RepoData(branchSeqs, tagSeqs, omits) ==
    { d \in [branches : branchSeqs, tags : tagSeqs, omitTags : omits] :
        d.omitTags => d.tags # <<>> }

MkRepo(n, d) ==
    [name |-> n, branches |-> d.branches, tags |-> d.tags, omitTags |-> d.omitTags]

\* The upstreams: at most two repositories with distinct names.
UpstreamsOver(data) ==
    {<<>>}
    \cup { <<MkRepo(n, d)>> : n \in RepoNames, d \in data }
    \cup UNION { { <<MkRepo(n1, d1), MkRepo(n2, d2)>> :
                      n2 \in RepoNames \ {n1}, d1 \in data, d2 \in data } :
                    n1 \in RepoNames }

\* The upstreams explored with accurate pageInfo, and those explored with a
\* pageInfo that is wrong in one place.
Upstreams ==
    UpstreamsOver(RepoData(RefSeqs("branches", MaxRefs), RefSeqs("tags", MaxRefs), BOOLEAN))
LyingUpstreams ==
    UpstreamsOver(RepoData(LyingRefSeqs("branches"), LyingRefSeqs("tags"), {FALSE}))

\* The position a cursor stands for: None is the start of the sequence.
Pos(cursor) == IF cursor = None THEN 0 ELSE cursor[1]

\* The page of sequence s that follows position k, at page size ps.
PageNodes(s, k, ps) == SubSeq(s, k + 1, Min(k + ps, Len(s)))

\* The accurate pageInfo of that page.
TruePageInfo(s, k, ps) ==
    [hasNextPage |-> k + ps < Len(s),
     endCursor   |-> IF k < Len(s) THEN Cur(Min(k + ps, Len(s))) ELSE None]

\* The ways the pageInfo of a page can differ from the accurate one.
Faults == {"no_pageinfo", "no_cursor", "stale", "more", "stop", "no_flag"}

\* The pageInfo the upstream reports for the page of s after position k.
PageInfoUnder(fault, s, k, ps) ==
    LET t == TruePageInfo(s, k, ps) IN
    CASE fault = "none"        -> t
      [] fault = "no_pageinfo" -> EmptyDict
      [] fault = "no_cursor"   -> [hasNextPage |-> TRUE]
      [] fault = "stale"       -> [hasNextPage |-> TRUE, endCursor |-> Cur(0)]
      [] fault = "more"        -> [hasNextPage |-> TRUE, endCursor |-> t.endCursor]
      [] fault = "stop"        -> [hasNextPage |-> FALSE, endCursor |-> t.endCursor]
      [] fault = "no_flag"     -> [endCursor |-> t.endCursor]

\* The connections of an upstream: the repository list, and the branches
\* and the tags of each repository.
ReposConn == <<"repos", "">>
Conns(repos) ==
    {ReposConn} \cup { <<kind, repos[i].name>> : kind \in {"branches", "tags"}, i \in DOMAIN repos }

\* The sequence behind a connection.
RepoOf(repos, name) == CHOOSE r \in {repos[i] : i \in DOMAIN repos} : r.name = name
SeqOf(repos, conn) ==
    IF conn = ReposConn THEN repos
    ELSE IF conn[1] = "branches" THEN RepoOf(repos, conn[2]).branches
    ELSE RepoOf(repos, conn[2]).tags

\* An upstream's lie: the page of connection conn after position pos is
\* reported with a faulty pageInfo whenever it is served, either as the
\* inline sample of the repository query (inline) or by the connection's
\* own query. NoLie: no page is.
NoLie == [conn |-> ReposConn, inline |-> FALSE, pos |-> 0, fault |-> "none"]
Lies(repos, ps) ==
    UNION { { [conn |-> c, inline |-> FALSE, pos |-> k * ps, fault |-> f] :
                k \in { j \in 0..Len(SeqOf(repos, c)) : j = 0 \/ j * ps < Len(SeqOf(repos, c)) },
                f \in Faults } :
            c \in Conns(repos) }
    \cup { [conn |-> c, inline |-> TRUE, pos |-> 0, fault |-> f] :
             c \in Conns(repos) \ {ReposConn}, f \in Faults }

FaultOf(l, conn, inline, k) ==
    IF l.conn = conn /\ l.inline = inline /\ l.pos = k THEN l.fault ELSE "none"

\* A connection {nodes, pageInfo} as a response carries it.
Conn(repos, l, conn, inline, k, ps) ==
    [nodes |-> PageNodes(SeqOf(repos, conn), k, ps),
     pageInfo |-> PageInfoUnder(FaultOf(l, conn, inline, k), SeqOf(repos, conn), k, ps)]

\* The inline tag connection of a repository node: the first page, or the
\* empty sample.
InlineTags(repos, l, r, ps) ==
    IF r.omitTags
    THEN [nodes |-> <<>>, pageInfo |-> [hasNextPage |-> FALSE, endCursor |-> None]]
    ELSE Conn(repos, l, <<"tags", r.name>>, TRUE, 0, ps)

\* The primaryLanguage the upstream sends for a repository: an object with a
\* name, a string, null, or no such key. Which one is tied to the
\* repository's name and branch count, so that every shape occurs.
HasPrimaryLanguage(r) == ~(r.name = "r1" /\ Len(r.branches) % 2 = 1)
PrimaryLanguage(r) ==
    IF r.name = "r1" THEN PyDict([name |-> PyStr("Python")])
    ELSE IF Len(r.branches) % 2 = 0 THEN PyStr("Go")
    ELSE None

\* A repository node of the repository query (build_repo_query_and_vars):
\* the name, the inline branch connection under refs and, when the query
\* holds the tags fragment, the inline tag connection under tags.
RepoNode(repos, l, r, ps, withTags) ==
    LET meta == [name |-> r.name,
                 description |-> PyStr("about"),
                 refs |-> Conn(repos, l, <<"branches", r.name>>, TRUE, 0, ps)]
        lang == IF HasPrimaryLanguage(r)
                THEN Put(meta, "primaryLanguage", PrimaryLanguage(r))
                ELSE meta
    IN IF withTags THEN Put(lang, "tags", InlineTags(repos, l, r, ps)) ELSE lang

\* The account whose repositories are listed.
Login == "acme"

\* Which query a request's variables belong to: the repository query carries
\* login, the branch query refPrefix, the tag query neither.
ReqKind(v) ==
    IF "login" \in DOMAIN v THEN "repos"
    ELSE IF "refPrefix" \in DOMAIN v THEN "branches"
    ELSE "tags"

\* The repository a per-repository request is for: the full-detail queries
\* name it repoName, the name-only branch query name.
ReqRepo(v) == IF "repoName" \in DOMAIN v THEN v.repoName ELSE v.name

\* The request comes from fetch_repos_full_graphql, whose queries take the
\* size of ref pages as a variable; the queries of
\* list_repos_branches_graphql hold GRAPHQL_PAGE_SIZE in their text.
IsFullQuery(v) == "refsPageSize" \in DOMAIN v
RefsPageSize(v, ps) == IF IsFullQuery(v) THEN v.refsPageSize ELSE ps

\* A repository node of the name-only repository query: the name and the
\* inline branch connection.
ListRepoNode(repos, l, r, ps) ==
    [name |-> r.name, refs |-> Conn(repos, l, <<"branches", r.name>>, TRUE, 0, ps)]

\* Where the upstream puts the repositories of the account: under user or
\* under organization; "null": both are null; "none": the data is empty.
Accounts == {"user", "organization", "null", "none"}

\* The data of a repository page, under the account's root field.
UnderRoot(acct, repos_conn) ==
    CASE acct = "user"         -> [user |-> [repositories |-> repos_conn]]
      [] acct = "organization" -> [organization |-> [repositories |-> repos_conn]]
      [] acct = "null"         -> [user |-> None, organization |-> None]
      [] acct = "none"         -> EmptyDict

\* The data the upstream answers a request with: repositories come in pages
\* of ps (the query text holds GRAPHQL_PAGE_SIZE), refs in pages of
\* RefsPageSize.
Answer(repos, l, ps, withTags, acct, v) ==
    LET k == Pos(v.after)
        rps == RefsPageSize(v, ps)
    IN
    CASE ReqKind(v) = "repos" ->
           LET page == PageNodes(repos, k, ps) IN
           UnderRoot(acct,
              [pageInfo |-> PageInfoUnder(FaultOf(l, ReposConn, FALSE, k), repos, k, ps),
               nodes |-> [i \in DOMAIN page |->
                            IF IsFullQuery(v)
                            THEN RepoNode(repos, l, page[i], rps, withTags)
                            ELSE ListRepoNode(repos, l, page[i], rps)]])
      [] ReqKind(v) = "branches" ->
           [repository |-> [refs |-> Conn(repos, l, <<"branches", ReqRepo(v)>>, FALSE, k, rps)]]
      [] ReqKind(v) = "tags" ->
           [repository |-> [tags |-> Conn(repos, l, <<"tags", ReqRepo(v)>>, FALSE, k, rps)]]

\* ------------------------------------------------ builders and extractors

\* build_repo_query_and_vars: the variables of the repository query.
build_repo_query_and_vars(after, ps) ==
    [login |-> Login, after |-> after, refsPageSize |-> ps]

\* build_branch_query_and_vars_for_repo, closed over repo_name.
build_branch_query_and_vars_for_repo(name, after, ps) ==
    [owner |-> Login, repoName |-> name, after |-> after, refsPageSize |-> ps,
     refPrefix |-> "refs/heads/"]

\* build_tag_query_and_vars_for_repo, closed over repo_name.
build_tag_query_and_vars_for_repo(name, after, ps) ==
    [owner |-> Login, repoName |-> name, after |-> after, refsPageSize |-> ps]

\* root_field = "organization" if is_org else "user", but always "user".
RootFieldAlwaysUser(org) == "user"

\* root_field = "organization" if is_org else "user"
RootField(org) == IF org THEN "organization" ELSE "user"

\* list_repos_branches_graphql's build_repo_query_and_vars.
list_build_repo_query_and_vars(after) == [login |-> Login, after |-> after]

\* list_repos_branches_graphql's build_branch_query_and_vars_for_repo, closed
\* over repo_name.
list_build_branch_query_and_vars_for_repo(name, after) ==
    [owner |-> Login, name |-> name, after |-> after, refPrefix |-> "refs/heads/"]

\* extract_repo_nodes_and_pageinfo, closed over root_field (the same in both
\* functions).
extract_repo_nodes_and_pageinfo(data, root_field) ==
    LET root_obj == Or(Get(data, root_field, None), EmptyDict)
        repos_conn == Or(Get(root_obj, "repositories", None), EmptyDict)
    IN <<Get(repos_conn, "nodes", <<>>), Get(repos_conn, "pageInfo", EmptyDict)>>

\* extract_branch_nodes_and_pageinfo
extract_branch_nodes_and_pageinfo(data) ==
    LET refs_conn == Get(Get(data, "repository", EmptyDict), "refs", EmptyDict)
    IN <<Get(refs_conn, "nodes", <<>>), Get(refs_conn, "pageInfo", EmptyDict)>>

\* extract_tag_nodes_and_pageinfo
extract_tag_nodes_and_pageinfo(data) ==
    LET refs_conn == Get(Get(data, "repository", EmptyDict), "tags", EmptyDict)
    IN <<Get(refs_conn, "nodes", <<>>), Get(refs_conn, "pageInfo", EmptyDict)>>

\* The per-repository builders bound to one repository instead of the one
\* of the iteration.
BuildVarsOneRepo(c, after, ps) ==
    LET name == "r1"
    IN  CASE c.kind = "repos"    -> build_repo_query_and_vars(after, ps)
          [] c.kind = "branches" -> build_branch_query_and_vars_for_repo(name, after, ps)
          [] c.kind = "tags"     -> build_tag_query_and_vars_for_repo(name, after, ps)
          [] c.kind = "list_repos"    -> list_build_repo_query_and_vars(after)
          [] c.kind = "list_branches" ->
               list_build_branch_query_and_vars_for_repo(name, after)

\* The builder and the extractor a pagination chain was called with.
BuildVars(c, after, ps) ==
    CASE c.kind = "repos"    -> build_repo_query_and_vars(after, ps)
      [] c.kind = "branches" -> build_branch_query_and_vars_for_repo(c.repoName, after, ps)
      [] c.kind = "tags"     -> build_tag_query_and_vars_for_repo(c.repoName, after, ps)
      [] c.kind = "list_repos"    -> list_build_repo_query_and_vars(after)
      [] c.kind = "list_branches" ->
           list_build_branch_query_and_vars_for_repo(c.repoName, after)

Extract(c, data, root_field) ==
    CASE c.kind = "repos"         -> extract_repo_nodes_and_pageinfo(data, root_field)
      [] c.kind = "branches"      -> extract_branch_nodes_and_pageinfo(data)
      [] c.kind = "tags"          -> extract_tag_nodes_and_pageinfo(data)
      [] c.kind = "list_repos"    -> extract_repo_nodes_and_pageinfo(data, root_field)
      [] c.kind = "list_branches" -> extract_branch_nodes_and_pageinfo(data)

\* ------------------------------------------------------------------ state

VARIABLES
    fn,                     \* the function that runs: "full" for
                            \* fetch_repos_full_graphql, "list" for
                            \* list_repos_branches_graphql
    is_org,                 \* argument of both functions
    account,                \* where the upstream puts the repositories
    include_tags,           \* argument of fetch_repos_full_graphql
    up,                     \* the repositories the upstream holds
    pageSize,               \* GRAPHQL_PAGE_SIZE
    lie,                    \* where the upstream's pageInfo is wrong, if anywhere
    pc,                     \* where the run stands
    chain,                  \* the builder/extractor pair of the running chain
    calls,                  \* every call of the engine so far: its chain, its
                            \* start cursor and the requests issued before it
    after_cursor,           \* _fetch_paginated_gql_data: after_cursor
    all_nodes,              \* _fetch_paginated_gql_data: all_nodes
    has_next_page,          \* _fetch_paginated_gql_data: has_next_page
    all_repo_nodes,         \* fetch_repos_full_graphql: all_repo_nodes
    idx,                    \* repository nodes the for loop has taken
    repo_name,              \* fetch_repos_full_graphql: repo_name
    current_repo_branches,  \* fetch_repos_full_graphql: current_repo_branches
    current_repo_tags,      \* fetch_repos_full_graphql: current_repo_tags
    repo_map, branch_map, tag_map,
    branches,               \* list_repos_branches_graphql: branches
    result,                 \* list_repos_branches_graphql: result
    gql_pc,                 \* where _github_graphql stands
    max_retries,            \* _github_graphql: max_retries
    attempt,                \* _github_graphql: attempt
    outcomes,               \* what each attempt of the running call met
    sleeps,                 \* the sleep_s of each time.sleep of the running call
    gql_return,             \* what the last call of _github_graphql returned
    gql_calls,              \* calls of _github_graphql so far
    API_CALL_COUNT,         \* the module's API_CALL_COUNT
    files,                  \* the files of out_dir: path -> content
    printed,                \* what the persist functions printed, in order
    persist_fn,             \* the persist function that is called
    persist_arg,            \* its mapping, as the items in the dict's order
    persist_i,              \* items the for loop has taken
    persist_run,            \* calls of the persist function so far
    persist_pc,             \* where the persist function stands
    run,                    \* 1 in the first run of the function, 2 in a second
    first_run,              \* what the first run issued and returned
    requests,               \* the variables of every request issued, in order
    responses               \* what each request was answered with, in order

inputs == <<fn, is_org, account, include_tags, up, pageSize, lie>>
engine == <<chain, calls, after_cursor, all_nodes, has_next_page>>
agg == <<all_repo_nodes, idx, repo_name, current_repo_branches, current_repo_tags,
         repo_map, branch_map, tag_map>>
listing == <<branches, result>>
prior == <<run, first_run>>
transport == <<gql_pc, max_retries, attempt, outcomes, sleeps, gql_return, gql_calls,
               API_CALL_COUNT>>
disk == <<files, printed, persist_fn, persist_arg, persist_i, persist_run, persist_pc>>
net == <<requests, responses>>
vars == <<inputs, pc, engine, agg, listing, prior, transport, disk, net>>

\* The upstream's pageInfo is accurate throughout.
Accurate == lie = NoLie

\* The state a run starts in: nothing fetched, nothing stored.
Fresh ==
    /\ pc = "start"
    /\ chain = [kind |-> "repos", repoName |-> ""]
    /\ calls = <<>>
    /\ after_cursor = None
    /\ all_nodes = <<>>
    /\ has_next_page = TRUE
    /\ all_repo_nodes = <<>>
    /\ idx = 0
    /\ repo_name = ""
    /\ current_repo_branches = <<>>
    /\ current_repo_tags = <<>>
    /\ repo_map = EmptyDict
    /\ branch_map = EmptyDict
    /\ tag_map = EmptyDict
    /\ branches = <<>>
    /\ result = EmptyDict
    /\ run = 1
    /\ first_run = None
    /\ requests = <<>>
    /\ responses = <<>>

\* _github_graphql is not running; the pagination engine takes a request
\* and its answer as one step each.
Idle ==
    /\ gql_pc = "idle"
    /\ max_retries = MAX_RETRIES
    /\ attempt = 0
    /\ outcomes = <<>>
    /\ sleeps = <<>>
    /\ gql_return = None
    /\ gql_calls = 0
    /\ API_CALL_COUNT = 0

\* No persist function is called: the fetch functions touch no file.
NothingPersisted ==
    /\ files = EmptyDict
    /\ printed = <<>>
    /\ persist_fn = "none"
    /\ persist_arg = <<>>
    /\ persist_i = 0
    /\ persist_run = 0
    /\ persist_pc = "idle"

\* fetch_repos_full_graphql for a user, against an upstream that holds the
\* account as a user.
Init ==
    /\ fn = "full"
    /\ is_org = FALSE
    /\ account = "user"
    /\ include_tags \in BOOLEAN
    /\ pageSize \in 1..MaxPageSize
    /\ \/ /\ up \in Upstreams
          /\ lie = NoLie
       \/ /\ up \in LyingUpstreams
          /\ lie \in Lies(up, pageSize)
          /\ lie.conn[1] = "tags" => include_tags
    /\ Fresh
    /\ NothingPersisted
    /\ Idle

\* ------------------------------------------- _fetch_paginated_gql_data

\* list.extend that leaves out the nodes the list already holds.
ExtendDedup(list, nodes) ==
    list \o SelectSeq(nodes, LAMBDA n : \A i \in DOMAIN list : list[i] # n)

\* A ref record with its target turned into a commit summary: the target,
\* or the commit an annotated tag wraps, gives commit and commit_full, and
\* the target key goes.
Normalized(rec) ==
    IF "target" \notin DOMAIN rec THEN rec
    ELSE LET t == rec.target
             effective == IF "target" \in DOMAIN t THEN t.target ELSE t
         IN [k \in (DOMAIN rec \ {"target"}) \cup {"commit", "commit_full"} |->
               IF k = "commit"
               THEN [sha |-> effective.oid, message |-> effective.messageHeadline]
               ELSE IF k = "commit_full" THEN effective
               ELSE rec[k]]

\* list.extend of the nodes, each turned into a commit summary.
ExtendNormalized(list, nodes) ==
    list \o [i \in DOMAIN nodes |-> Normalized(nodes[i])]

\* list.extend
Extend(list, nodes) == list \o nodes

\* page_info.get("hasNextPage", True)
HasNextPageDefaultTrue(page_info) == Get(page_info, "hasNextPage", TRUE)

\* page_info.get("hasNextPage", False), and the truth value of
\* page_info.get("hasNextPage"): a missing key counts as no further page.
HasNextPage(page_info) == Get(page_info, "hasNextPage", FALSE)

\* page_info.get("startCursor")
EndCursorWrongKey(page_info) == Get(page_info, "startCursor", None)

\* page_info.get("endCursor")
EndCursor(page_info) == Get(page_info, "endCursor", None)

\* The call with start_cursor dropped: after_cursor = None.
CallFromStart(kind, name, start_cursor) ==
    /\ chain' = [kind |-> kind, repoName |-> name]
    /\ calls' = Append(calls, [kind |-> kind, repoName |-> name,
                               start |-> start_cursor, from |-> Len(requests)])
    /\ all_nodes' = <<>>
    /\ after_cursor' = None
    /\ has_next_page' = TRUE
    /\ pc' = "fetch"

\* The call with a cursor that outlives it: after_cursor is not set from
\* start_cursor.
CallResume(kind, name, start_cursor) ==
    /\ chain' = [kind |-> kind, repoName |-> name]
    /\ calls' = Append(calls, [kind |-> kind, repoName |-> name,
                               start |-> start_cursor, from |-> Len(requests)])
    /\ all_nodes' = <<>>
    /\ after_cursor' = after_cursor
    /\ has_next_page' = TRUE
    /\ pc' = "fetch"

\* The call: all_nodes = [], after_cursor = start_cursor, has_next_page = True.
Call(kind, name, start_cursor) ==
    /\ chain' = [kind |-> kind, repoName |-> name]
    /\ calls' = Append(calls, [kind |-> kind, repoName |-> name,
                               start |-> start_cursor, from |-> Len(requests)])
    /\ all_nodes' = <<>>
    /\ after_cursor' = start_cursor
    /\ has_next_page' = TRUE
    /\ pc' = "fetch"

\* The request issued without waiting for the answer to the one before.
SendRequestPipelined ==
    /\ pc \in {"fetch", "wait"}
    /\ Accurate \/ Len(requests) < MaxRequests
    /\ requests' = Append(requests, BuildVars(chain, after_cursor, pageSize))
    /\ pc' = "wait"
    /\ UNCHANGED <<inputs, prior, transport, disk, listing, engine, agg, responses>>

\* The loop body up to the call of _github_graphql: the request goes out.
SendRequest ==
    /\ pc = "fetch"
    /\ Accurate \/ Len(requests) < MaxRequests
    /\ requests' = Append(requests, BuildVars(chain, after_cursor, pageSize))
    /\ pc' = "wait"
    /\ UNCHANGED <<inputs, prior, transport, disk, listing, engine, agg, responses>>

\* _github_graphql returns the data; the rest of the loop body consumes it.
Respond ==
    /\ pc = "wait"
    /\ LET data == Answer(up, lie, pageSize, include_tags, account, requests[Len(requests)])
           nodes == Extract(chain, data, RootField(is_org))[1]
           page_info == Extract(chain, data, RootField(is_org))[2]
       IN   /\ responses' = Append(responses, [status |-> "ok", data |-> data])
            /\ all_nodes' = Extend(all_nodes, nodes)
            /\ has_next_page' = HasNextPage(page_info)
            /\ after_cursor' = EndCursor(page_info)
            /\ pc' = IF HasNextPage(page_info) THEN "fetch" ELSE "return"
    /\ UNCHANGED <<inputs, prior, transport, disk, listing, chain, calls, agg, requests>>

\* The fatal error caught by the engine, which returns the nodes it has.
FailCaught ==
    /\ pc = "wait"
    /\ responses' = Append(responses, [status |-> "fatal"])
    /\ pc' = "return"
    /\ UNCHANGED <<inputs, prior, transport, disk, listing, engine, agg, requests>>

\* _github_graphql raises SystemExit, which nothing catches: the run ends.
Fail ==
    /\ pc = "wait"
    /\ responses' = Append(responses, [status |-> "fatal"])
    /\ pc' = "aborted"
    /\ UNCHANGED <<inputs, prior, transport, disk, listing, engine, agg, requests>>

\* ----------------------------------------------------- _github_graphql

\* The HTTP error statuses raise_for_status raises on.
Statuses == {401, 500, 504}

\* What an attempt can meet: a payload (its errors list empty or not), an
\* HTTPError with its status, a Timeout or a ConnectionError.
Outcomes ==
    {[kind |-> "payload", status |-> 200, errors |-> e] : e \in {<<>>, <<"boom">>}}
    \cup {[kind |-> "HTTPError", status |-> st, errors |-> <<>>] : st \in Statuses}
    \cup {[kind |-> k, status |-> 0, errors |-> <<>>] : k \in {"Timeout", "ConnectionError"}}

\* The data of the payload the given attempt of the given call receives.
PayloadData(call, k) == [call |-> call, attempt |-> k]

\* _github_graphql is called.
GqlCall ==
    /\ gql_pc \in {"idle", "returned"}
    /\ gql_calls < MaxGqlCalls
    /\ gql_calls' = gql_calls + 1
    /\ attempt' = 0
    /\ outcomes' = <<>>
    /\ sleeps' = <<>>
    /\ gql_pc' = "loop"
    /\ UNCHANGED <<inputs, prior, disk, pc, engine, agg, listing, net, max_retries, gql_return,
                   API_CALL_COUNT>>

\* The loop counting a request once, at its first attempt.
LoopNextCountsRequests ==
    /\ gql_pc = "loop"
    /\ IF attempt < max_retries
       THEN /\ attempt' = attempt + 1
            /\ API_CALL_COUNT' = API_CALL_COUNT + (IF attempt = 0 THEN 1 ELSE 0)
            /\ gql_pc' = "post"
            /\ UNCHANGED gql_return
       ELSE /\ gql_pc' = "returned"
            /\ gql_return' = None
            /\ UNCHANGED <<attempt, API_CALL_COUNT>>
    /\ UNCHANGED <<inputs, prior, disk, pc, engine, agg, listing, net, max_retries, outcomes,
                   sleeps, gql_calls>>

\* for attempt in range(1, max_retries + 1): the next attempt is counted in
\* API_CALL_COUNT; when the range is used up the function ends without a
\* return statement.
LoopNext ==
    /\ gql_pc = "loop"
    /\ IF attempt < max_retries
       THEN /\ attempt' = attempt + 1
            /\ API_CALL_COUNT' = API_CALL_COUNT + 1
            /\ gql_pc' = "post"
            /\ UNCHANGED gql_return
       ELSE /\ gql_pc' = "returned"
            /\ gql_return' = None
            /\ UNCHANGED <<attempt, API_CALL_COUNT>>
    /\ UNCHANGED <<inputs, prior, disk, pc, engine, agg, listing, net, max_retries, outcomes,
                   sleeps, gql_calls>>

\* The attempt gets a payload: with errors in it SystemExit is raised, which
\* no except clause of the function catches; otherwise its data is returned.
PostPayload ==
    /\ gql_pc = "post"
    /\ \E o \in {x \in Outcomes : x.kind = "payload"} :
        /\ outcomes' = Append(outcomes, o)
        /\ IF o.errors # <<>>
           THEN /\ gql_pc' = "fatal"
                /\ UNCHANGED gql_return
           ELSE /\ gql_pc' = "returned"
                /\ gql_return' = PayloadData(gql_calls, attempt)
    /\ UNCHANGED <<inputs, prior, disk, pc, engine, agg, listing, net, max_retries, attempt,
                   sleeps, gql_calls, API_CALL_COUNT>>

\* except requests.HTTPError that retries whatever the status.
ExceptHTTPErrorAnyStatus ==
    /\ gql_pc = "post"
    /\ \E o \in {x \in Outcomes : x.kind = "HTTPError"} :
        /\ outcomes' = Append(outcomes, o)
        /\ gql_pc' = IF attempt = max_retries THEN "fatal" ELSE "sleep"
    /\ UNCHANGED <<inputs, prior, disk, pc, engine, agg, listing, net, max_retries, attempt,
                   sleeps, gql_return, gql_calls, API_CALL_COUNT>>

\* except requests.HTTPError: fatal unless the status is 504 and attempts
\* remain.
ExceptHTTPError ==
    /\ gql_pc = "post"
    /\ \E o \in {x \in Outcomes : x.kind = "HTTPError"} :
        /\ outcomes' = Append(outcomes, o)
        /\ gql_pc' = IF o.status # 504 \/ attempt = max_retries THEN "fatal" ELSE "sleep"
    /\ UNCHANGED <<inputs, prior, disk, pc, engine, agg, listing, net, max_retries, attempt,
                   sleeps, gql_return, gql_calls, API_CALL_COUNT>>

\* except (requests.Timeout, requests.ConnectionError) that never gives up.
ExceptConnectionNoCeiling ==
    /\ gql_pc = "post"
    /\ \E o \in {x \in Outcomes : x.kind \in {"Timeout", "ConnectionError"}} :
        /\ outcomes' = Append(outcomes, o)
        /\ gql_pc' = "sleep"
    /\ UNCHANGED <<inputs, prior, disk, pc, engine, agg, listing, net, max_retries, attempt,
                   sleeps, gql_return, gql_calls, API_CALL_COUNT>>

\* except (requests.Timeout, requests.ConnectionError): fatal when this was
\* the last attempt.
ExceptConnection ==
    /\ gql_pc = "post"
    /\ \E o \in {x \in Outcomes : x.kind \in {"Timeout", "ConnectionError"}} :
        /\ outcomes' = Append(outcomes, o)
        /\ gql_pc' = IF attempt = max_retries THEN "fatal" ELSE "sleep"
    /\ UNCHANGED <<inputs, prior, disk, pc, engine, agg, listing, net, max_retries, attempt,
                   sleeps, gql_return, gql_calls, API_CALL_COUNT>>

\* The wait computed from the attempts that failed before this one.
SleepZeroBased ==
    /\ gql_pc = "sleep"
    /\ sleeps' = Append(sleeps, 2 ^ (attempt - 1))
    /\ gql_pc' = "loop"
    /\ UNCHANGED <<inputs, prior, disk, pc, engine, agg, listing, net, max_retries, attempt,
                   outcomes, gql_return, gql_calls, API_CALL_COUNT>>

\* sleep_s = 2 ** attempt; time.sleep(sleep_s); then the loop goes on.
Sleep ==
    /\ gql_pc = "sleep"
    /\ sleeps' = Append(sleeps, 2 ^ attempt)
    /\ gql_pc' = "loop"
    /\ UNCHANGED <<inputs, prior, disk, pc, engine, agg, listing, net, max_retries, attempt,
                   outcomes, gql_return, gql_calls, API_CALL_COUNT>>

\* _github_graphql alone, called up to MaxGqlCalls times in a row with the
\* same max_retries, each attempt meeting any outcome.
InitGql ==
    /\ fn = "full"
    /\ is_org = FALSE
    /\ account = "user"
    /\ include_tags = FALSE
    /\ pageSize = 1
    /\ up = <<>>
    /\ lie = NoLie
    /\ Fresh
    /\ NothingPersisted
    /\ gql_pc = "idle"
    /\ max_retries \in 0..MaxRetriesArg
    /\ attempt = 0
    /\ outcomes = <<>>
    /\ sleeps = <<>>
    /\ gql_return = None
    /\ gql_calls = 0
    /\ API_CALL_COUNT = 0

NextGql ==
    \/ GqlCall
    \/ LoopNext
    \/ PostPayload
    \/ ExceptHTTPError
    \/ ExceptConnection
    \/ Sleep

SpecGql == InitGql /\ [][NextGql]_vars

\* ------------------------------------------- fetch_repos_full_graphql

\* The call of the engine for the repository list.
FetchRepos ==
    /\ pc = "start"
    /\ fn = "full"
    /\ Call("repos", "", None)
    /\ UNCHANGED <<inputs, prior, transport, disk, listing, agg, net>>

\* The repository chain returned: all_repo_nodes is bound and the for loop
\* begins.
ReposFetched ==
    /\ pc = "return"
    /\ chain.kind = "repos"
    /\ all_repo_nodes' = all_nodes
    /\ idx' = 0
    /\ pc' = "loop"
    /\ UNCHANGED <<inputs, prior, transport, disk, listing, engine, net, repo_name, current_repo_branches,
                   current_repo_tags, repo_map, branch_map, tag_map>>

\* The branch section following up whatever the inline pageInfo says.
BranchPlanAlways(branch_page_info, inline_nodes) == "follow"

\* The branch section following up also when there is no inline branch, as
\* the tag section does.
BranchPlanLikeTags(branch_page_info, inline_nodes) ==
    IF HasNextPage(branch_page_info) \/ inline_nodes = <<>> THEN "follow" ELSE "none"

\* What the branch section does after seeding the list from the inline
\* nodes: "follow" the inline cursor, or "none".
BranchPlan(branch_page_info, inline_nodes) ==
    IF HasNextPage(branch_page_info) THEN "follow" ELSE "none"

\* The for loop taking the first node of all_repo_nodes in every iteration.
RepoNodeAtFirst(nodes, i) == nodes[1]

\* The for loop walking all_repo_nodes from the last node to the first.
RepoNodeAtReversed(nodes, i) == nodes[Len(nodes) + 1 - i]

\* for repo_node in all_repo_nodes: the node of the i-th iteration.
RepoNodeAt(nodes, i) == nodes[i]

\* The for loop takes the next repository node: it is stored in repo_map,
\* the branch list is seeded from the inline connection, and the branch
\* follow-up chain is called when the inline pageInfo asks for it.
StartRepo ==
    /\ pc = "loop"
    /\ idx < Len(all_repo_nodes)
    /\ LET repo_node == RepoNodeAt(all_repo_nodes, idx + 1)
           initial_branch_refs_conn == Get(repo_node, "refs", EmptyDict)
           branch_page_info == Get(initial_branch_refs_conn, "pageInfo", EmptyDict)
           inline_nodes == Get(initial_branch_refs_conn, "nodes", <<>>)
           plan == BranchPlan(branch_page_info, inline_nodes)
       IN /\ idx' = idx + 1
          /\ repo_name' = repo_node.name
          /\ repo_map' = Put(repo_map, repo_node.name, repo_node)
          /\ current_repo_branches' = inline_nodes
          /\ CASE plan = "follow" ->
                    Call("branches", repo_node.name, EndCursor(branch_page_info))
               [] plan = "none"   -> /\ pc' = "branches_done"
                                     /\ UNCHANGED engine
    /\ UNCHANGED <<inputs, prior, transport, disk, listing, net, all_repo_nodes, current_repo_tags, branch_map, tag_map>>

\* The branch chain returned: its nodes extend the seeded list.
BranchesFetched ==
    /\ pc = "return"
    /\ chain.kind = "branches"
    /\ current_repo_branches' = Extend(current_repo_branches, all_nodes)
    /\ pc' = "branches_done"
    /\ UNCHANGED <<inputs, prior, transport, disk, listing, engine, net, all_repo_nodes, idx, repo_name,
                   current_repo_tags, repo_map, branch_map, tag_map>>

\* The tag section without the fresh fetch.
TagPlanNoFresh(flag, tag_page_info, tags) ==
    IF ~flag THEN "skip"
    ELSE IF HasNextPage(tag_page_info) THEN "follow"
    ELSE "none"

\* The tag section fetching fresh whenever the inline pageInfo has no next
\* page.
TagPlanAlwaysFresh(flag, tag_page_info, tags) ==
    IF ~flag THEN "skip"
    ELSE IF HasNextPage(tag_page_info) THEN "follow"
    ELSE "fresh"

\* The tag section run whatever include_tags says.
TagPlanIgnoreFlag(flag, tag_page_info, tags) ==
    IF HasNextPage(tag_page_info) THEN "follow"
    ELSE IF tags = <<>> THEN "fresh"
    ELSE "none"

\* What the tag section does: "skip" it without include_tags; else, after
\* seeding the list from the inline nodes, "follow" the inline cursor, fetch
\* "fresh" from no cursor when there is no inline tag, or "none".
TagPlan(flag, tag_page_info, tags) ==
    IF ~flag THEN "skip"
    ELSE IF HasNextPage(tag_page_info) THEN "follow"
    ELSE IF tags = <<>> THEN "fresh"
    ELSE "none"

\* branch_map[repo_name] is set; with include_tags the tag list is seeded
\* from the inline connection and the tag chain is called when needed.
StoreBranches ==
    /\ pc = "branches_done"
    /\ branch_map' = Put(branch_map, repo_name, current_repo_branches)
    /\ LET repo_node == RepoNodeAt(all_repo_nodes, idx)
           initial_tag_refs_conn == Get(repo_node, "tags", EmptyDict)
           tags == Get(initial_tag_refs_conn, "nodes", <<>>)
           tag_page_info == Get(initial_tag_refs_conn, "pageInfo", EmptyDict)
           plan == TagPlan(include_tags, tag_page_info, tags)
       IN  /\ current_repo_tags' = IF plan = "skip" THEN current_repo_tags ELSE tags
           /\ CASE plan = "follow" -> Call("tags", repo_name, EndCursor(tag_page_info))
                [] plan = "fresh"  -> Call("tags", repo_name, None)
                [] plan = "none"   -> /\ pc' = "tags_done"
                                      /\ UNCHANGED engine
                [] plan = "skip"   -> /\ pc' = "loop"
                                      /\ UNCHANGED engine
    /\ UNCHANGED <<inputs, prior, transport, disk, listing, net, all_repo_nodes, idx, repo_name,
                   current_repo_branches, repo_map, tag_map>>

\* The tag chain returned: its nodes extend the seeded list.
TagsFetched ==
    /\ pc = "return"
    /\ chain.kind = "tags"
    /\ current_repo_tags' = Extend(current_repo_tags, all_nodes)
    /\ pc' = "tags_done"
    /\ UNCHANGED <<inputs, prior, transport, disk, listing, engine, net, all_repo_nodes, idx, repo_name,
                   current_repo_branches, repo_map, branch_map, tag_map>>

\* tag_map[repo_name] set only for a repository that has tags.
StoreTagsNonEmpty ==
    /\ pc = "tags_done"
    /\ tag_map' = IF current_repo_tags = <<>> THEN tag_map
                  ELSE Put(tag_map, repo_name, current_repo_tags)
    /\ pc' = "loop"
    /\ UNCHANGED <<inputs, prior, transport, disk, listing, engine, net, all_repo_nodes, idx, repo_name,
                   current_repo_branches, current_repo_tags, repo_map, branch_map>>

\* tag_map[repo_name] is set and the for loop goes on.
StoreTags ==
    /\ pc = "tags_done"
    /\ tag_map' = Put(tag_map, repo_name, current_repo_tags)
    /\ pc' = "loop"
    /\ UNCHANGED <<inputs, prior, transport, disk, listing, engine, net, all_repo_nodes, idx, repo_name,
                   current_repo_branches, current_repo_tags, repo_map, branch_map>>

\* The post-processing that leaves primaryLanguage as it came.
PostProcessKeepDict(repo_details) == repo_details

\* The post-processing of one value of repo_map: a primaryLanguage that is
\* a dict with a name becomes that name.
PostProcess(repo_details) ==
    LET lang_dict == Get(repo_details, "primaryLanguage", None) IN
    IF IsInstanceDict(lang_dict) /\ "name" \in DOMAIN lang_dict.value
    THEN Put(repo_details, "primaryLanguage", lang_dict.value.name)
    ELSE repo_details

\* The for loop that does not end when the repository nodes are used up.
ReturnLoopsOn ==
    /\ pc = "loop"
    /\ idx = Len(all_repo_nodes)
    /\ pc' = "loop"
    /\ UNCHANGED <<inputs, prior, transport, disk, listing, engine, net, agg>>

\* The for loop is exhausted: repo_map is post-processed and the three
\* mappings are returned.
Return ==
    /\ pc = "loop"
    /\ idx = Len(all_repo_nodes)
    /\ pc' = "done"
    /\ repo_map' = [n \in DOMAIN repo_map |-> PostProcess(repo_map[n])]
    /\ UNCHANGED <<inputs, prior, transport, disk, listing, engine, net, all_repo_nodes, idx, repo_name,
                   current_repo_branches, current_repo_tags, branch_map, tag_map>>

\* ---------------------------------------- list_repos_branches_graphql

\* [ref["name"] for ref in nodes]
Names(nodes) == [i \in DOMAIN nodes |-> nodes[i].name]

\* The names of a set in ascending order.
RECURSIVE SortedList(_)
SortedList(S) ==
    IF S = {} THEN <<>>
    ELSE LET least == CHOOSE x \in S : \A y \in S : x <= y
         IN <<least>> \o SortedList(S \ {least})

\* The branch list stored as it was fetched.
KeepAsFetched(names) == names

\* sorted(list(set(branches)))
SortedUnique(names) == SortedList({ names[i] : i \in DOMAIN names })

\* The call of the engine for the repository list.
ListRepos ==
    /\ pc = "start"
    /\ fn = "list"
    /\ Call("list_repos", "", None)
    /\ UNCHANGED <<inputs, prior, transport, disk, agg, listing, net>>

\* The repository chain returned: the for loop begins.
ListReposFetched ==
    /\ pc = "return"
    /\ chain.kind = "list_repos"
    /\ all_repo_nodes' = all_nodes
    /\ idx' = 0
    /\ pc' = "list_loop"
    /\ UNCHANGED <<inputs, prior, transport, disk, engine, listing, net, repo_name, current_repo_branches,
                   current_repo_tags, repo_map, branch_map, tag_map>>

\* The for loop takes the next repository node: branches holds the inline
\* branch names, and the follow-up chain is called when the inline pageInfo
\* asks for it.
ListStartRepo ==
    /\ pc = "list_loop"
    /\ idx < Len(all_repo_nodes)
    /\ LET repo_node == RepoNodeAt(all_repo_nodes, idx + 1)
           initial_branch_refs == Get(repo_node, "refs", EmptyDict)
           branch_page_info == Get(initial_branch_refs, "pageInfo", EmptyDict)
       IN /\ idx' = idx + 1
          /\ repo_name' = repo_node.name
          /\ branches' = Names(Get(initial_branch_refs, "nodes", <<>>))
          /\ IF HasNextPage(branch_page_info)
             THEN Call("list_branches", repo_node.name, EndCursor(branch_page_info))
             ELSE /\ pc' = "list_store"
                  /\ UNCHANGED engine
    /\ UNCHANGED <<inputs, prior, transport, disk, net, result, all_repo_nodes, current_repo_branches,
                   current_repo_tags, repo_map, branch_map, tag_map>>

\* The branch chain returned: the names of its nodes extend branches.
ListBranchesFetched ==
    /\ pc = "return"
    /\ chain.kind = "list_branches"
    /\ branches' = Extend(branches, Names(all_nodes))
    /\ pc' = "list_store"
    /\ UNCHANGED <<inputs, prior, transport, disk, engine, agg, net, result>>

\* result[repo_name] is set and the for loop goes on.
ListStore ==
    /\ pc = "list_store"
    /\ result' = Put(result, repo_name, SortedUnique(branches))
    /\ pc' = "list_loop"
    /\ UNCHANGED <<inputs, prior, transport, disk, engine, agg, net, branches>>

\* The for loop is exhausted: result is returned.
ListReturn ==
    /\ pc = "list_loop"
    /\ idx = Len(all_repo_nodes)
    /\ pc' = "done"
    /\ UNCHANGED <<inputs, prior, transport, disk, engine, agg, listing, net>>

\* The upstreams list_repos_branches_graphql is run against: the tags play
\* no part.
ListUpstreams ==
    UpstreamsOver(RepoData(RefSeqs("branches", MaxRefs), {<<>>}, {FALSE}))
ListLyingUpstreams ==
    UpstreamsOver(RepoData(LyingRefSeqs("branches"), {<<>>}, {FALSE}))

\* list_repos_branches_graphql for a user.
InitList ==
    /\ fn = "list"
    /\ is_org = FALSE
    /\ account = "user"
    /\ include_tags = FALSE
    /\ pageSize \in 1..MaxPageSize
    /\ \/ /\ up \in ListUpstreams
          /\ lie = NoLie
       \/ /\ up \in ListLyingUpstreams
          /\ lie \in Lies(up, pageSize)
          /\ lie.conn[1] # "tags"
    /\ Fresh
    /\ NothingPersisted
    /\ Idle

NextList ==
    \/ ListRepos
    \/ SendRequest
    \/ Respond
    \/ Fail
    \/ ListReposFetched
    \/ ListStartRepo
    \/ ListBranchesFetched
    \/ ListStore
    \/ ListReturn

SpecList == InitList /\ [][NextList]_vars

Next ==
    \/ FetchRepos
    \/ SendRequest
    \/ Respond
    \/ Fail
    \/ ReposFetched
    \/ StartRepo
    \/ BranchesFetched
    \/ StoreBranches
    \/ TagsFetched
    \/ StoreTags
    \/ Return

Spec == Init /\ [][Next]_vars

\* fetch_repos_full_graphql against upstreams whose pageInfo is accurate.
\* The function is sequential code: a step that can be taken is taken, and a
\* request that went out is answered or fails, _github_graphql giving up
\* after max_retries attempts. Each step changes pc, idx, requests or
\* responses. The repositories are those whose primaryLanguage is not an
\* object, so that every value of repo_map keeps its type throughout.
InitLive ==
    /\ fn = "full"
    /\ is_org = FALSE
    /\ account = "user"
    /\ include_tags \in BOOLEAN
    /\ pageSize \in 1..MaxPageSize
    /\ up \in { u \in UpstreamsOver(RepoData(RefSeqs("branches", MaxRefs),
                                               LyingRefSeqs("tags"), {FALSE})) :
                  \A i \in DOMAIN u :
                      HasPrimaryLanguage(u[i]) => ~IsInstanceDict(PrimaryLanguage(u[i])) }
    /\ lie = NoLie
    /\ Fresh
    /\ NothingPersisted
    /\ Idle

SpecLive == InitLive /\ [][Next]_vars /\ WF_<<pc, idx, requests, responses>>(Next)

\* cli, full-details mode: the simple branch list map derived from the full
\* branch data. An empty branch_map_full gives the empty map; a repository
\* whose list is empty is left out; the names are those of the nodes that
\* have one, distinct and sorted.
repo_branch_list_map(branch_map_full) ==
    IF branch_map_full = EmptyDict THEN EmptyDict
    ELSE [name \in { n \in DOMAIN branch_map_full : branch_map_full[n] # <<>> } |->
            SortedList({ branch_map_full[name][i].name :
                           i \in { j \in DOMAIN branch_map_full[name] :
                                     "name" \in DOMAIN branch_map_full[name][j] } })]

\* api_calls_estimator.py: the page size the estimate assumes, here the one
\* the upstream pages at.
PAGE_SIZE == pageSize

\* ceildiv(a, b): (a + b - 1) // b
ceildiv(a, b) == (a + b - 1) \div b

\* graphql_branches(num_repos, branches_per_repo): the requests the
\* estimator expects of list_repos_branches_graphql.
graphql_branches(num_repos, branches_per_repo) ==
    LET repo_pages == ceildiv(num_repos, PAGE_SIZE)
        extra_pages == ceildiv(branches_per_repo, PAGE_SIZE) - 1
        extra_branch_calls ==
            IF branches_per_repo > PAGE_SIZE THEN num_repos * extra_pages ELSE 0
    IN  repo_pages + extra_branch_calls

\* The REST listing list_repos_branches(username, headers): fetch_repos
\* gives the repositories; with none, "No repositories found" is printed and
\* the empty mapping returned.
RestListRepos ==
    /\ fn = "list_repos_branches"
    /\ pc = "start"
    /\ all_repo_nodes' = up
    /\ IF up = <<>>
       THEN /\ printed' = Append(printed, [stream |-> "stdout",
                                           text |-> "No repositories found for", name |-> account])
            /\ pc' = "done"
       ELSE /\ printed' = printed
            /\ pc' = "rest_loop"
    /\ UNCHANGED <<inputs, prior, transport, engine, listing, net, idx, repo_name,
                   current_repo_branches, current_repo_tags, repo_map, branch_map, tag_map,
                   files, persist_fn, persist_arg, persist_i, persist_run, persist_pc>>

\* fetch_branches answers for the next repository: its branch names are
\* stored under its name.
RestFetchBranches ==
    /\ fn = "list_repos_branches"
    /\ pc = "rest_loop"
    /\ idx < Len(all_repo_nodes)
    /\ LET repo == all_repo_nodes[idx + 1]
       IN  /\ repo_name' = repo.name
           /\ result' = Put(result, repo.name, Names(repo.branches))
    /\ idx' = idx + 1
    /\ UNCHANGED <<inputs, prior, transport, disk, engine, net, pc, branches, all_repo_nodes,
                   current_repo_branches, current_repo_tags, repo_map, branch_map, tag_map>>

\* Where the loop stands after a repository whose fetch_branches raised
\* SystemExit.
RestAborts == "aborted"
RestSkips == "rest_loop"

\* fetch_branches fails fatally for the next repository: a warning naming
\* it goes to stderr, nothing is stored for it, and the loop goes on.
RestSkipRepo ==
    /\ fn = "list_repos_branches"
    /\ pc = "rest_loop"
    /\ idx < Len(all_repo_nodes)
    /\ LET repo == all_repo_nodes[idx + 1]
       IN  /\ repo_name' = repo.name
           /\ printed' = Append(printed, [stream |-> "stderr", text |-> "[warn] Skipping",
                                          name |-> repo.name])
    /\ idx' = idx + 1
    /\ pc' = RestSkips
    /\ UNCHANGED <<inputs, prior, transport, engine, listing, net, all_repo_nodes,
                   current_repo_branches, current_repo_tags, repo_map, branch_map, tag_map,
                   files, persist_fn, persist_arg, persist_i, persist_run, persist_pc>>

\* The loop is exhausted: the mapping is returned.
RestReturn ==
    /\ fn = "list_repos_branches"
    /\ pc = "rest_loop"
    /\ idx = Len(all_repo_nodes)
    /\ pc' = "done"
    /\ UNCHANGED <<inputs, prior, transport, disk, engine, agg, listing, net>>

\* list_repos_branches for a user, each fetch_branches free to fail.
InitRest ==
    /\ fn = "list_repos_branches"
    /\ is_org = FALSE
    /\ account = "user"
    /\ include_tags = FALSE
    /\ pageSize = 1
    /\ up \in ListUpstreams
    /\ lie = NoLie
    /\ Fresh
    /\ NothingPersisted
    /\ Idle

NextRest ==
    \/ RestListRepos
    \/ RestFetchBranches
    \/ RestSkipRepo
    \/ RestReturn

SpecRest == InitRest /\ [][NextRest]_vars

\* fetch_repos_full_graphql is called again with the same arguments, against
\* the same upstream: the mappings start empty again, and what the first run
\* issued and returned is kept for comparison. The locals of the engine are
\* whatever the first run left; the call sets them.
Restart ==
    /\ pc = "done"
    /\ fn = "full"
    /\ run = 1
    /\ run' = 2
    /\ first_run' = [requests |-> requests, repo_map |-> repo_map,
                 branch_map |-> branch_map, tag_map |-> tag_map]
    /\ pc' = "start"
    /\ repo_map' = EmptyDict
    /\ branch_map' = EmptyDict
    /\ tag_map' = EmptyDict
    /\ all_repo_nodes' = <<>>
    /\ idx' = 0
    /\ repo_name' = ""
    /\ current_repo_branches' = <<>>
    /\ current_repo_tags' = <<>>
    /\ calls' = <<>>
    /\ requests' = <<>>
    /\ responses' = <<>>
    /\ UNCHANGED <<inputs, listing, transport, disk, chain, after_cursor, all_nodes,
                   has_next_page>>

\* fetch_repos_full_graphql for a user, run twice.
InitTwice ==
    /\ fn = "full"
    /\ is_org = FALSE
    /\ account = "user"
    /\ include_tags \in BOOLEAN
    /\ pageSize \in 1..MaxPageSize
    /\ up \in LyingUpstreams
    /\ lie \in {NoLie} \cup Lies(up, pageSize)
    /\ lie.conn[1] = "tags" => include_tags
    /\ Fresh
    /\ NothingPersisted
    /\ Idle

NextTwice ==
    \/ FetchRepos
    \/ SendRequest
    \/ Respond
    \/ Fail
    \/ ReposFetched
    \/ StartRepo
    \/ BranchesFetched
    \/ StoreBranches
    \/ TagsFetched
    \/ StoreTags
    \/ Return
    \/ Restart

SpecTwice == InitTwice /\ [][NextTwice]_vars

\* ------------------------------------------------------- persist functions

\* A str is the sequence of its characters. The characters of the model, in
\* the order of their code points.
Chars == <<"\n", " ", "/", "_", "a", "b", "c", "e", "l", "m", "n", "v">>
Ord(c) == CHOOSE i \in DOMAIN Chars : Chars[i] = c

\* s < t on str.
RECURSIVE StrLess(_, _)
StrLess(s, t) ==
    IF t = <<>> THEN FALSE
    ELSE IF s = <<>> THEN TRUE
    ELSE IF s[1] = t[1] THEN StrLess(Tail(s), Tail(t))
    ELSE Ord(s[1]) < Ord(t[1])

\* sorted(S), for a set of str.
RECURSIVE Sorted(_)
Sorted(S) ==
    IF S = {} THEN <<>>
    ELSE LET least == CHOOSE x \in S : \A y \in S \ {x} : StrLess(x, y)
         IN <<least>> \o Sorted(S \ {least})

\* "\n".join(lines)
RECURSIVE Join(_)
Join(lines) ==
    IF lines = <<>> THEN <<>>
    ELSE IF Len(lines) = 1 THEN lines[1]
    ELSE lines[1] \o <<"\n">> \o Join(Tail(lines))

\* text.splitlines(): the lines without their line ends; a text that ends
\* in a line end has no empty last line.
RECURSIVE SplitLines(_)
SplitLines(text) ==
    IF text = <<>> THEN <<>>
    ELSE IF \E k \in DOMAIN text : text[k] = "\n"
    THEN LET k == CHOOSE j \in DOMAIN text :
                      text[j] = "\n" /\ \A h \in 1..(j - 1) : text[h] # "\n"
         IN <<SubSeq(text, 1, k - 1)>> \o SplitLines(SubSeq(text, k + 1, Len(text)))
    ELSE <<text>>

\* line.strip()
RECURSIVE Strip(_)
Strip(line) ==
    IF line = <<>> THEN <<>>
    ELSE IF line[1] = " " THEN Strip(Tail(line))
    ELSE IF line[Len(line)] = " " THEN Strip(SubSeq(line, 1, Len(line) - 1))
    ELSE line

\* {line.strip() for line in text.splitlines() if line.strip()}
StrippedLines(text) ==
    { Strip(SplitLines(text)[i]) : i \in DOMAIN SplitLines(text) } \ {<<>>}

\* The branch names of the model, and the branch lists.
BranchNames == {<<"a">>, <<"b">>, <<"a", "b">>}
BranchLists == UNION { [1..n -> BranchNames] : n \in 0..MaxBranches }

\* The texts a branch file may hold before the call.
Texts == UNION { [1..n -> {"\n", " ", "a", "b"}] : n \in 0..MaxTextLen }

\* The path p / f"{repo}.txt", p / f"{name}.json"
TxtFile(repo) == <<repo, "txt">>
JsonFile(name) == <<name, "json">>

\* A mapping as its items in the order of the dict: at most two repositories
\* with distinct names.
ItemsOver(values) ==
    {<<>>}
    \cup { <<<<n, v>>>> : n \in RepoNames, v \in values }
    \cup UNION { { <<<<n1, v1>>, <<n2, v2>>>> :
                      n2 \in RepoNames \ {n1}, v1 \in values, v2 \in values } :
                    n1 \in RepoNames }

\* persist_branches is called: out_dir is made.
PersistBranchesCall ==
    /\ persist_fn = "persist_branches"
    /\ persist_pc = "idle"
    /\ persist_run < MaxPersistCalls
    /\ persist_run' = persist_run + 1
    /\ persist_i' = 0
    /\ persist_pc' = "loop"
    /\ UNCHANGED <<inputs, pc, engine, agg, listing, prior, transport, net, files, printed,
                   persist_fn, persist_arg>>

\* The file written with the names as the list has them.
BranchFileAsGiven(branch_list) == Join(branch_list) \o <<"\n">>

\* "\n".join(sorted(new_set)) + "\n" for new_set = set(branches)
BranchFile(branch_list) ==
    Join(Sorted({ branch_list[i] : i \in DOMAIN branch_list })) \o <<"\n">>

\* The report of every repository whose file existed, changed or not.
BranchReportAlways(exists, added, removed) == exists

\* if added or removed: whether persist_branches prints.
BranchReport(exists, added, removed) == added # {} \/ removed # {}

\* One iteration of the for loop of persist_branches: the old names are read
\* when the file exists, the file is written, the change is printed.
PersistBranchesItem ==
    /\ persist_fn = "persist_branches"
    /\ persist_pc = "loop"
    /\ persist_i < Len(persist_arg)
    /\ LET repo == persist_arg[persist_i + 1][1]
           branch_list == persist_arg[persist_i + 1][2]
           file == TxtFile(repo)
           new_set == { branch_list[i] : i \in DOMAIN branch_list }
           exists == file \in DOMAIN files
           old_set == IF exists THEN StrippedLines(files[file]) ELSE {}
           added == IF exists THEN new_set \ old_set ELSE {}
           removed == IF exists THEN old_set \ new_set ELSE {}
       IN  /\ files' = Put(files, file, BranchFile(branch_list))
           /\ printed' = IF BranchReport(exists, added, removed)
                         THEN Append(printed, [run |-> persist_run, repo |-> repo,
                                               what |-> "branches updated",
                                               added |-> Cardinality(added),
                                               removed |-> Cardinality(removed)])
                         ELSE printed
    /\ persist_i' = persist_i + 1
    /\ UNCHANGED <<inputs, pc, engine, agg, listing, prior, transport, net, persist_fn,
                   persist_arg, persist_run, persist_pc>>

\* The for loop of a persist function is exhausted: the function returns.
PersistReturn ==
    /\ persist_pc = "loop"
    /\ persist_i = Len(persist_arg)
    /\ persist_pc' = "idle"
    /\ UNCHANGED <<inputs, pc, engine, agg, listing, prior, transport, net, files, printed,
                   persist_fn, persist_arg, persist_i, persist_run>>

\* The state of everything but the files.
NothingFetched ==
    /\ fn = "full"
    /\ is_org = FALSE
    /\ account = "user"
    /\ include_tags = FALSE
    /\ pageSize = 1
    /\ up = <<>>
    /\ lie = NoLie
    /\ Fresh
    /\ Idle

\* The files of out_dir before the first call: file1 is absent or holds one
\* of olds, file2 is absent or holds other.
FilesBefore(file1, file2, olds, other) ==
    { EmptyDict, [f \in {file2} |-> other] }
    \cup { [f \in {file1} |-> t] : t \in olds }
    \cup { [f \in {file1, file2} |-> IF f = file1 THEN t ELSE other] : t \in olds }

\* persist_branches, called up to MaxPersistCalls times in a row with the
\* same mapping.
InitPersistBranches ==
    /\ NothingFetched
    /\ persist_fn = "persist_branches"
    /\ persist_arg \in ItemsOver(BranchLists)
    /\ files \in FilesBefore(TxtFile("r1"), TxtFile("r2"), Texts, <<"b", "\n">>)
    /\ printed = <<>>
    /\ persist_i = 0
    /\ persist_run = 0
    /\ persist_pc = "idle"

NextPersistBranches ==
    \/ PersistBranchesCall
    \/ PersistBranchesItem
    \/ PersistReturn

SpecPersistBranches == InitPersistBranches /\ [][NextPersistBranches]_vars

\* A payload is a dict with str keys, as its items <<key, value>> in the
\* order of insertion. The payloads of the model.
JsonKeys == {<<"a">>, <<"b">>}
JsonValues == {1, 2}
Payloads ==
    {<<>>}
    \cup { <<<<k, v>>>> : k \in JsonKeys, v \in JsonValues }
    \cup UNION { { <<<<k1, v1>>, <<k2, v2>>>> :
                      k2 \in JsonKeys \ {k1}, v1 \in JsonValues, v2 \in JsonValues } :
                    k1 \in JsonKeys }

\* The items of a dict in the order of their keys.
RECURSIVE SortItems(_)
SortItems(items) ==
    IF items = <<>> THEN <<>>
    ELSE LET k == CHOOSE i \in DOMAIN items :
                     \A j \in DOMAIN items \ {i} : StrLess(items[i][1], items[j][1])
         IN <<items[k]>> \o SortItems(SelectSeq(items, LAMBDA it : it # items[k]))

Spaces(n) == [i \in 1..n |-> " "]

\* The member lines of json.dumps: each item on a line of its own, indented,
\* the key in quotes, a comma after every item but the last.
RECURSIVE Members(_, _)
Members(items, indent) ==
    IF items = <<>> THEN <<>>
    ELSE Spaces(indent) \o <<"\"">> \o items[1][1] \o <<"\"", ":", " ">>
         \o <<ToString(items[1][2])>>
         \o (IF Len(items) > 1 THEN <<",">> ELSE <<>>) \o <<"\n">>
         \o Members(Tail(items), indent)

\* json.dumps that leaves the items in the order of insertion.
DumpsAsInserted(payload, indent, sort_keys) ==
    IF payload = <<>> THEN <<"{", "}">>
    ELSE <<"{", "\n">> \o Members(payload, indent) \o <<"}">>

\* json.dumps(payload, indent=indent, sort_keys=sort_keys)
Dumps(payload, indent, sort_keys) ==
    LET items == IF sort_keys THEN SortItems(payload) ELSE payload IN
    IF items = <<>> THEN <<"{", "}">>
    ELSE <<"{", "\n">> \o Members(items, indent) \o <<"}">>

\* The texts a JSON file may hold before the call: a payload written with
\* this or another indent, with or without sorted keys, with or without the
\* last line end.
JsonTexts ==
    { Dumps(payload, indent, sort_keys) \o eol :
        payload \in Payloads, indent \in {2, 4}, sort_keys \in BOOLEAN,
        eol \in {<<>>, <<"\n">>} }

\* persist_repo_json is called: out_dir is made.
PersistRepoJsonCall ==
    /\ persist_fn = "persist_repo_json"
    /\ persist_pc = "idle"
    /\ persist_run < MaxPersistCalls
    /\ persist_run' = persist_run + 1
    /\ persist_i' = 0
    /\ persist_pc' = "loop"
    /\ UNCHANGED <<inputs, pc, engine, agg, listing, prior, transport, net, files, printed,
                   persist_fn, persist_arg>>

\* One iteration of the for loop of persist_repo_json: the payload is
\* serialized, compared with what the file holds, written, and the change is
\* printed.
PersistRepoJsonItem ==
    /\ persist_fn = "persist_repo_json"
    /\ persist_pc = "loop"
    /\ persist_i < Len(persist_arg)
    /\ LET name == persist_arg[persist_i + 1][1]
           payload == persist_arg[persist_i + 1][2]
           file == JsonFile(name)
           serialized == Dumps(payload, 2, TRUE)
           new_content == serialized \o <<"\n">>
           changed == ~(file \in DOMAIN files /\ files[file] = new_content)
       IN  /\ files' = Put(files, file, new_content)
           /\ printed' = IF changed
                         THEN Append(printed, [run |-> persist_run, repo |-> name,
                                               what |-> "JSON updated"])
                         ELSE printed
    /\ persist_i' = persist_i + 1
    /\ UNCHANGED <<inputs, pc, engine, agg, listing, prior, transport, net, persist_fn,
                   persist_arg, persist_run, persist_pc>>

\* persist_repo_json, called up to MaxPersistCalls times in a row with the
\* same data.
InitPersistJson ==
    /\ NothingFetched
    /\ persist_fn = "persist_repo_json"
    /\ persist_arg \in ItemsOver(Payloads)
    /\ files \in FilesBefore(JsonFile("r1"), JsonFile("r2"), JsonTexts, <<"{", "}">>)
    /\ printed = <<>>
    /\ persist_i = 0
    /\ persist_run = 0
    /\ persist_pc = "idle"

NextPersistJson ==
    \/ PersistRepoJsonCall
    \/ PersistRepoJsonItem
    \/ PersistReturn

SpecPersistJson == InitPersistJson /\ [][NextPersistJson]_vars

\* _sanitize(name): name.replace("/", "__")
RECURSIVE Sanitize(_)
Sanitize(name) ==
    IF name = <<>> THEN <<>>
    ELSE (IF name[1] = "/" THEN <<"_", "_">> ELSE <<name[1]>>) \o Sanitize(Tail(name))

\* A branch or tag record is a dict with a name and a val, as its items. The
\* names of the model: a plain name, a name with a slash, and the name the
\* latter is sanitized to.
NameKey == <<"n", "a", "m", "e">>
ValKey == <<"v", "a", "l">>
RecordNames == {<<"a">>, <<"a", "/", "b">>, <<"a", "_", "_", "b">>}
Records == { <<<<NameKey, n>>, <<ValKey, v>>>> : n \in RecordNames, v \in JsonValues }

\* The name of a record.
NameOf(rec) == rec[1][2]

\* The lists of records of one repository: names are unique within a
\* repository and kind.
RecordLists ==
    { l \in UNION { [1..n -> Records] : n \in 0..MaxRecords } :
        \A i \in DOMAIN l : \A j \in DOMAIN l : i # j => NameOf(l[i]) # NameOf(l[j]) }

\* The path repo_dir / fname of a record: fname = _sanitize(name) + ".json"
RecordFile(repo, rec) == <<repo, Sanitize(NameOf(rec)) \o <<".json">>>>

\* What persist_branch_json, or persist_tag_json, prints for a record.
UpdatedMessage(f) ==
    IF f = "persist_branch_json" THEN "branch JSON updated" ELSE "tag JSON updated"

\* The inner for loop over the records of one repository: each record is
\* serialized, compared with what its file holds, written, and the change is
\* printed. The files and the printed lines after it.
RECURSIVE WriteRecords(_, _, _, _, _)
WriteRecords(fs, out, repo, records, what) ==
    IF records = <<>> THEN [files |-> fs, printed |-> out]
    ELSE LET br == records[1]
             file == RecordFile(repo, br)
             serialized == Dumps(br, 2, TRUE)
             new_content == serialized \o <<"\n">>
             changed == ~(file \in DOMAIN fs /\ fs[file] = new_content)
         IN WriteRecords(Put(fs, file, new_content),
                         IF changed
                         THEN Append(out, [run |-> persist_run, repo |-> repo,
                                           name |-> NameOf(br), what |-> what])
                         ELSE out,
                         repo, Tail(records), what)

\* persist_branch_json or persist_tag_json is called.
PersistRecordsCall ==
    /\ persist_fn \in {"persist_branch_json", "persist_tag_json"}
    /\ persist_pc = "idle"
    /\ persist_run < MaxPersistCalls
    /\ persist_run' = persist_run + 1
    /\ persist_i' = 0
    /\ persist_pc' = "loop"
    /\ UNCHANGED <<inputs, pc, engine, agg, listing, prior, transport, net, files, printed,
                   persist_fn, persist_arg>>

\* One iteration of the outer for loop: the records of one repository.
PersistRecordsRepo ==
    /\ persist_fn \in {"persist_branch_json", "persist_tag_json"}
    /\ persist_pc = "loop"
    /\ persist_i < Len(persist_arg)
    /\ LET repo == persist_arg[persist_i + 1][1]
           records == persist_arg[persist_i + 1][2]
           after == WriteRecords(files, printed, repo, records, UpdatedMessage(persist_fn))
       IN  /\ files' = after.files
           /\ printed' = after.printed
    /\ persist_i' = persist_i + 1
    /\ UNCHANGED <<inputs, pc, engine, agg, listing, prior, transport, net, persist_fn,
                   persist_arg, persist_run, persist_pc>>

\* persist_branch_json and persist_tag_json, called up to MaxPersistCalls
\* times in a row with the same mapping, into an empty directory or one that
\* holds a file of r1 already.
InitPersistRecords ==
    /\ NothingFetched
    /\ persist_fn \in {"persist_branch_json", "persist_tag_json"}
    /\ persist_arg \in ItemsOver(RecordLists)
    /\ files \in { EmptyDict } \cup
                 { [f \in {RecordFile("r1", rec)} |-> Dumps(rec, 2, TRUE) \o <<"\n">>] :
                     rec \in Records }
    /\ printed = <<>>
    /\ persist_i = 0
    /\ persist_run = 0
    /\ persist_pc = "idle"

NextPersistRecords ==
    \/ PersistRecordsCall
    \/ PersistRecordsRepo
    \/ PersistReturn

SpecPersistRecords == InitPersistRecords /\ [][NextPersistRecords]_vars

\* A ref node the upstream sends without a name.
UnnamedNode == [target |-> CommitTarget(1)]

\* Ref sequences with such a node in them, alone, first or last.
ShapeSeqs(kind) ==
    { <<>>, <<UnnamedNode>>, <<RefNode(kind, 2), UnnamedNode>>,
      <<UnnamedNode, RefNode(kind, 1)>> }
ShapeUpstreams ==
    UpstreamsOver(RepoData(ShapeSeqs("branches"), ShapeSeqs("tags"), {FALSE}))

\* fetch_repos_full_graphql for a user, against an upstream with accurate
\* pageInfo that sends ref nodes of any shape.
InitShapes ==
    /\ fn = "full"
    /\ is_org = FALSE
    /\ account = "user"
    /\ include_tags \in BOOLEAN
    /\ pageSize \in 1..MaxPageSize
    /\ up \in ShapeUpstreams
    /\ lie = NoLie
    /\ Fresh
    /\ NothingPersisted
    /\ Idle

SpecShapes == InitShapes /\ [][Next]_vars

\* Either function, for a user or an organization, against an upstream that
\* holds the account under either root field, or under none.
InitRoot ==
    /\ fn \in {"full", "list"}
    /\ is_org \in BOOLEAN
    /\ account \in Accounts
    /\ include_tags \in BOOLEAN
    /\ fn = "list" => ~include_tags
    /\ pageSize \in 1..MaxPageSize
    /\ up \in LyingUpstreams
    /\ lie = NoLie
    /\ Fresh
    /\ NothingPersisted
    /\ Idle

NextRoot ==
    \/ FetchRepos
    \/ ListRepos
    \/ SendRequest
    \/ Respond
    \/ Fail
    \/ ReposFetched
    \/ StartRepo
    \/ BranchesFetched
    \/ StoreBranches
    \/ TagsFetched
    \/ StoreTags
    \/ Return
    \/ ListReposFetched
    \/ ListStartRepo
    \/ ListBranchesFetched
    \/ ListStore
    \/ ListReturn

SpecRoot == InitRoot /\ [][NextRoot]_vars

\* ------------------------------------------------------ the run's record

\* The connection a response carried, read off the data as the upstream
\* sent it.
RespOk(i) == i <= Len(responses) /\ responses[i].status = "ok"
RespConn(i) ==
    LET d == responses[i].data IN
    CASE ReqKind(requests[i]) = "repos"    -> d.user.repositories
      [] ReqKind(requests[i]) = "branches" -> d.repository.refs
      [] ReqKind(requests[i]) = "tags"     -> d.repository.tags
\* What a connection says: whether it reports a next page, and its endCursor.
ConnMore(conn) ==
    /\ "hasNextPage" \in DOMAIN conn.pageInfo
    /\ conn.pageInfo.hasNextPage
ConnCursor(conn) ==
    IF "endCursor" \in DOMAIN conn.pageInfo THEN conn.pageInfo.endCursor ELSE None
RespNodes(i) == RespConn(i).nodes
RespMore(i) == ConnMore(RespConn(i))
RespCursor(i) == ConnCursor(RespConn(i))

\* The requests of the j-th call of the engine, and whether it has returned.
CallFirst(j) == calls[j].from + 1
CallLast(j) == IF j < Len(calls) THEN calls[j + 1].from ELSE Len(requests)
CallReqs(j) == CallFirst(j)..CallLast(j)
Returned(j) ==
    \/ j < Len(calls)
    \/ pc \in {"return", "loop", "branches_done", "tags_done", "list_loop",
               "list_store", "done"}

\* The nodes of the answered requests first..last, page after page.
RECURSIVE PagesNodes(_, _)
PagesNodes(first, last) ==
    IF first > last THEN <<>>
    ELSE (IF RespOk(first) THEN RespNodes(first) ELSE <<>>) \o PagesNodes(first + 1, last)

\* The nodes the j-th call fetched.
CallNodes(j) == PagesNodes(CallFirst(j), CallLast(j))

\* The calls of the engine for the branches, or the tags, of repository r,
\* and the requests issued for them.
CallsFor(kind, r) ==
    { j \in DOMAIN calls : calls[j].kind = kind /\ calls[j].repoName = r }
RequestsFor(kind, r) ==
    { i \in DOMAIN requests : ReqKind(requests[i]) = kind /\ ReqRepo(requests[i]) = r }

\* The nodes fetched by the calls in J (at most one call), in order.
NodesOf(J) == IF J = {} THEN <<>> ELSE CallNodes(CHOOSE j \in J : TRUE)

\* The repository nodes the for loop has taken so far.
Taken == { all_repo_nodes[i] : i \in 1..idx }

\* The names of the upstream's repositories.
UpNames == { up[i].name : i \in DOMAIN up }

\* A list holds some node twice.
HasDuplicate(list) ==
    \E a \in DOMAIN list : \E b \in DOMAIN list : a < b /\ list[a] = list[b]

\* ----------------------------------------------------------------- claims

\* C1: against an upstream whose pageInfo is accurate, the list returned for
\* a repository and kind is the upstream's complete sequence of that
\* repository's refs, in the upstream's order, each ref once; when the run is
\* done every repository has its lists.
C1_CompleteSequences ==
    Accurate =>
        /\ \A r \in DOMAIN branch_map : branch_map[r] = RepoOf(up, r).branches
        /\ \A r \in DOMAIN tag_map : tag_map[r] = RepoOf(up, r).tags
        /\ pc = "done" =>
              /\ DOMAIN branch_map = UpNames
              /\ include_tags => DOMAIN tag_map = UpNames

\* A run is done that needed two branch follow-up requests for a repository
\* and a fresh tag fetch of more than one page.
C1_Witness ==
    /\ pc = "done"
    /\ Accurate
    /\ include_tags
    /\ \E i \in DOMAIN up : Len(up[i].branches) > 2 * pageSize
    /\ \E i \in DOMAIN up : up[i].omitTags /\ Len(up[i].tags) > pageSize

\* C2: _fetch_paginated_gql_data accumulates, and returns, exactly the
\* concatenation of the node lists of the pages it fetched, in fetch order:
\* no node is dropped, reordered or deduplicated.
C2_ReturnsConcatenation ==
    calls # <<>> => all_nodes = CallNodes(Len(calls))

\* A call returned after two non-empty pages.
C2_Witness ==
    /\ pc = "return"
    /\ CallLast(Len(calls)) > CallFirst(Len(calls))
    /\ \A i \in CallReqs(Len(calls)) : RespNodes(i) # <<>>

\* C3: every call of the engine issues at least one request; a further
\* request follows a response exactly when the response's hasNextPage is
\* true; a response whose hasNextPage is false or missing, or whose pageInfo
\* is empty, is the last of the chain.
C3_RequestsFollowHasNextPage ==
    \A j \in DOMAIN calls :
        /\ Returned(j) =>
             /\ CallReqs(j) # {}
             /\ RespOk(CallLast(j))
             /\ ~RespMore(CallLast(j))
        /\ \A i \in CallReqs(j) : i < CallLast(j) => RespOk(i) /\ RespMore(i)
        /\ (j = Len(calls) /\ CallReqs(j) # {} /\ RespOk(CallLast(j))) =>
             (RespMore(CallLast(j)) <=> pc = "fetch")

\* A call returned after two requests, the second answered without any
\* pageInfo.
C3_Witness ==
    \E j \in DOMAIN calls :
        /\ Returned(j)
        /\ CallLast(j) > CallFirst(j)
        /\ RespConn(CallLast(j)).pageInfo = EmptyDict

\* C4: the first request of a chain carries the start cursor the engine was
\* called with (None for the repository list); every later request carries
\* the endCursor of the response just before it in the same chain.
C4_CursorChain ==
    \A j \in DOMAIN calls :
        /\ calls[j].kind = "repos" => calls[j].start = None
        /\ \A i \in CallReqs(j) :
             requests[i].after =
                IF i = CallFirst(j) THEN calls[j].start ELSE RespCursor(i - 1)

\* A branch chain of two requests, started at an inline cursor and continued
\* at another one.
C4_Witness ==
    \E j \in DOMAIN calls :
        /\ calls[j].kind = "branches"
        /\ CallLast(j) > CallFirst(j)
        /\ calls[j].start # None
        /\ requests[CallLast(j)].after \notin {None, calls[j].start}

\* C5 (as claimed): a response with hasNextPage true and no endCursor ends
\* the run with a fatal error, and no request follows it.
C5_MissingCursorIsFatal ==
    \A i \in DOMAIN responses :
        (RespOk(i) /\ RespMore(i) /\ RespCursor(i) = None) =>
            (pc = "aborted" /\ Len(requests) = i)

\* C6: a branch follow-up chain is called for a repository exactly when its
\* inline branch connection reports hasNextPage true; it starts at the inline
\* endCursor; the repository's branch list is the inline nodes followed by the
\* chain's nodes in fetch order, duplicates kept.
C6_BranchFollowUp ==
    /\ \A node \in Taken :
         LET J == CallsFor("branches", node.name) IN
         /\ ConnMore(node.refs) <=> J # {}
         /\ Cardinality(J) <= 1
         /\ \A j \in J : calls[j].start = ConnCursor(node.refs)
         /\ node.name \in DOMAIN branch_map =>
              branch_map[node.name] = node.refs.nodes \o NodesOf(J)
    /\ \A j \in DOMAIN calls :
         calls[j].kind = "branches" => \E node \in Taken : node.name = calls[j].repoName

\* A branch list is stored that holds a branch twice: once from the inline
\* nodes and once from the follow-up chain.
C6_Witness ==
    \E node \in Taken :
        /\ node.name \in DOMAIN branch_map
        /\ CallsFor("branches", node.name) # {}
        /\ HasDuplicate(branch_map[node.name])

\* The inline tag connection of a repository node is empty and reports no
\* next page.
EmptyTagSample(node) ==
    /\ include_tags
    /\ node.name \in DOMAIN branch_map
    /\ node.tags.nodes = <<>>
    /\ ~ConnMore(node.tags)

\* C7 (as claimed): for a repository whose inline tag connection is empty
\* with hasNextPage false, exactly one tag request is issued, with no cursor,
\* and its nodes are the repository's tag list.
C7_ExactlyOneFreshRequest ==
    \A node \in Taken :
        EmptyTagSample(node) =>
            LET R == RequestsFor("tags", node.name) IN
            /\ Cardinality(R) <= 1
            /\ \A i \in R : requests[i].after = None
            /\ node.name \in DOMAIN tag_map =>
                 /\ Cardinality(R) = 1
                 /\ \A i \in R : tag_map[node.name] = RespNodes(i)

\* C7 (amended): for such a repository one tag chain is called, with no
\* start cursor: its first request carries no cursor, it is the only request
\* when its response reports no next page, and the nodes of all the chain's
\* pages, in fetch order, are the repository's tag list.
C7_FreshTagChain ==
    \A node \in Taken :
        EmptyTagSample(node) =>
            LET J == CallsFor("tags", node.name) IN
            /\ Cardinality(J) = 1
            /\ \A j \in J :
                 /\ calls[j].start = None
                 /\ RequestsFor("tags", node.name) = CallReqs(j)
                 /\ CallReqs(j) # {} => requests[CallFirst(j)].after = None
                 /\ (RespOk(CallFirst(j)) /\ ~RespMore(CallFirst(j))) =>
                      CallLast(j) = CallFirst(j)
                 /\ node.name \in DOMAIN tag_map =>
                      /\ CallReqs(j) # {}
                      /\ tag_map[node.name] = CallNodes(j)

\* A tag list of more than one tag is stored for a repository whose inline
\* tag connection was empty with hasNextPage false.
C7_Witness ==
    \E node \in Taken :
        /\ EmptyTagSample(node)
        /\ node.name \in DOMAIN tag_map
        /\ Len(tag_map[node.name]) > 1

\* C8: for a repository whose inline branch connection is empty with
\* hasNextPage false, no branch request is issued and the branch list is
\* empty.
C8_NoFreshBranchFetch ==
    \A node \in Taken :
        (node.refs.nodes = <<>> /\ ~ConnMore(node.refs)) =>
            /\ RequestsFor("branches", node.name) = {}
            /\ node.name \in DOMAIN branch_map => branch_map[node.name] = <<>>

\* A run is done that met a repository with no inline branch and no next
\* page, after a repository with branches.
C8_Witness ==
    /\ pc = "done"
    /\ Len(all_repo_nodes) = 2
    /\ all_repo_nodes[1].refs.nodes # <<>>
    /\ all_repo_nodes[2].refs.nodes = <<>>
    /\ ~ConnMore(all_repo_nodes[2].refs)
    /\ all_repo_nodes[2].name \in DOMAIN branch_map

\* The first response holds the whole repository list, no inline branch
\* connection reports a next page, and tags are not requested or every
\* inline tag connection is non-empty and reports no next page.
AllInline ==
    /\ RespOk(1)
    /\ ~RespMore(1)
    /\ \A i \in DOMAIN RespNodes(1) :
         LET node == RespNodes(1)[i] IN
         /\ ~ConnMore(node.refs)
         /\ \/ ~include_tags
            \/ (node.tags.nodes # <<>> /\ ~ConnMore(node.tags))

\* C9: in that case the run issues exactly one request in total.
C9_SingleRequest ==
    AllInline => Len(requests) = 1

\* A run with tags requested is done with two repositories, all of whose
\* branches and tags came inline.
C9_Witness ==
    /\ pc = "done"
    /\ include_tags
    /\ AllInline
    /\ Len(all_repo_nodes) = 2

\* C10: without include_tags no tag request is issued and the tag mapping
\* stays empty.
C10_NoTagsUnlessRequested ==
    ~include_tags =>
        /\ tag_map = EmptyDict
        /\ \A i \in DOMAIN requests : ReqKind(requests[i]) # "tags"

\* A run without include_tags is done against an upstream that holds more
\* than a page of tags for a repository.
C10_Witness ==
    /\ pc = "done"
    /\ ~include_tags
    /\ \E i \in DOMAIN up : Len(up[i].tags) > pageSize

\* The place of a request in the order of a run: the repository-list
\* requests first, then for each repository, in the order of all_repo_nodes,
\* its branch requests and then its tag requests.
RepoIndex(name) ==
    CHOOSE k \in DOMAIN all_repo_nodes : all_repo_nodes[k].name = name
Rank(v) ==
    CASE ReqKind(v) = "repos"    -> 0
      [] ReqKind(v) = "branches" -> 2 * RepoIndex(v.repoName)
      [] ReqKind(v) = "tags"     -> 2 * RepoIndex(v.repoName) + 1

\* C11: the requests of a run are ordered: every repository-list request
\* precedes every per-repository request, which are for repositories that
\* were returned; per-repository requests follow the order the repositories
\* were returned in; within a repository the branch requests precede the tag
\* requests.
C11_RequestOrder ==
    /\ \A i \in DOMAIN requests :
         ReqKind(requests[i]) # "repos" =>
            \E k \in DOMAIN all_repo_nodes : all_repo_nodes[k].name = requests[i].repoName
    /\ \A i \in DOMAIN requests : \A j \in DOMAIN requests :
         i < j => Rank(requests[i]) <= Rank(requests[j])

\* A run is done that fetched two repository pages and, for each of two
\* repositories, issued branch requests and tag requests.
C11_Witness ==
    /\ pc = "done"
    /\ Len(all_repo_nodes) = 2
    /\ Cardinality({ i \in DOMAIN requests : ReqKind(requests[i]) = "repos" }) = 2
    /\ \A k \in DOMAIN all_repo_nodes :
         /\ RequestsFor("branches", all_repo_nodes[k].name) # {}
         /\ RequestsFor("tags", all_repo_nodes[k].name) # {}

\* The elements of a list.
Elements(list) == { list[i] : i \in DOMAIN list }

\* The upstream's sequence behind the list stored for repository r.
UpBranches(r) == RepoOf(up, r).branches
UpTags(r) == RepoOf(up, r).tags

\* A returned record is the commit summary of the upstream node it came
\* from: commit holds the target's oid and messageHeadline, commit_full is
\* the target, and there is no target key.
IsSummaryOf(rec, node) ==
    /\ "target" \notin DOMAIN rec
    /\ "commit" \in DOMAIN rec
    /\ "commit_full" \in DOMAIN rec
    /\ rec.commit = [sha |-> node.target.oid,
                     message |-> Get(node.target, "messageHeadline", None)]
    /\ rec.commit_full = node.target

\* C12 (as claimed): against an accurate upstream, every returned branch and
\* tag record whose upstream node has a target is that node's commit
\* summary.
C12_RecordsNormalized ==
    Accurate =>
        /\ \A r \in DOMAIN branch_map :
             /\ Len(branch_map[r]) = Len(UpBranches(r))
             /\ \A i \in DOMAIN branch_map[r] :
                  "target" \in DOMAIN UpBranches(r)[i] =>
                      IsSummaryOf(branch_map[r][i], UpBranches(r)[i])
        /\ \A r \in DOMAIN tag_map :
             /\ Len(tag_map[r]) = Len(UpTags(r))
             /\ \A i \in DOMAIN tag_map[r] :
                  "target" \in DOMAIN UpTags(r)[i] =>
                      IsSummaryOf(tag_map[r][i], UpTags(r)[i])

\* The upstream node is an annotated tag: its target wraps a commit target.
IsAnnotated(node) ==
    /\ "target" \in DOMAIN node
    /\ "target" \in DOMAIN node.target

\* C13 (as claimed): against an accurate upstream, the returned record of an
\* annotated tag has the commit summary of the wrapped commit.
C13_AnnotatedTagUnwrapped ==
    Accurate =>
        \A r \in DOMAIN tag_map :
            /\ Len(tag_map[r]) = Len(UpTags(r))
            /\ \A i \in DOMAIN tag_map[r] :
                 IsAnnotated(UpTags(r)[i]) =>
                     /\ "commit" \in DOMAIN tag_map[r][i]
                     /\ tag_map[r][i].commit =
                          [sha |-> UpTags(r)[i].target.target.oid,
                           message |-> UpTags(r)[i].target.target.messageHeadline]

\* The nodes received for the branches, or the tags, of repository r: those
\* inline in its repository node and those of the responses to its requests.
InlineConn(kind, node) ==
    IF kind = "branches" THEN Get(node, "refs", [nodes |-> <<>>])
    ELSE Get(node, "tags", [nodes |-> <<>>])
Received(kind, r) ==
    UNION { Elements(InlineConn(kind, node).nodes) : node \in { n \in Taken : n.name = r } }
    \cup UNION { Elements(RespNodes(i)) : i \in { q \in RequestsFor(kind, r) : RespOk(q) } }

\* C14: every returned branch and tag record is a node the upstream sent for
\* that repository and kind, with the same keys and the same values: the
\* target is kept and nothing is added.
C14_RecordsUnchanged ==
    /\ \A r \in DOMAIN branch_map :
         Elements(branch_map[r]) \subseteq Received("branches", r)
    /\ \A r \in DOMAIN tag_map :
         Elements(tag_map[r]) \subseteq Received("tags", r)

\* A run is done that returned, from follow-up pages, a branch record with a
\* commit target and the record of an annotated tag.
C14_Witness ==
    /\ pc = "done"
    /\ \E r \in DOMAIN branch_map :
         /\ RequestsFor("branches", r) # {}
         /\ \E i \in DOMAIN branch_map[r] :
              /\ i > 1
              /\ "target" \in DOMAIN branch_map[r][i]
    /\ \E r \in DOMAIN tag_map :
         /\ RequestsFor("tags", r) # {}
         /\ \E i \in DOMAIN tag_map[r] : IsAnnotated(tag_map[r][i])

\* The primaryLanguage of a repository node is an object with a name member.
LanguageIsNamedObject(node) ==
    /\ "primaryLanguage" \in DOMAIN node
    /\ IsInstanceDict(node.primaryLanguage)
    /\ "name" \in DOMAIN node.primaryLanguage.value

\* Two values of such a field are the same value: both null, or of the same
\* type and equal.
SameValue(a, b) ==
    IF a = None \/ b = None THEN a = b
    ELSE a.type = b.type /\ a.value = b.value

\* C15: in the returned repository mapping each repository has the keys its
\* upstream node had; a primaryLanguage that was an object with a name is
\* that name; any other primaryLanguage, and every other field, has the
\* upstream's value.
C15_PrimaryLanguageFlattened ==
    pc = "done" =>
        /\ DOMAIN repo_map = { all_repo_nodes[i].name : i \in DOMAIN all_repo_nodes }
        /\ \A i \in DOMAIN all_repo_nodes :
             LET node == all_repo_nodes[i]
                 details == repo_map[node.name]
             IN /\ DOMAIN details = DOMAIN node
                /\ \A k \in DOMAIN node \ {"primaryLanguage"} : details[k] = node[k]
                /\ "primaryLanguage" \in DOMAIN node =>
                     SameValue(details.primaryLanguage,
                               IF LanguageIsNamedObject(node)
                               THEN node.primaryLanguage.value.name
                               ELSE node.primaryLanguage)

\* A run is done that returned a repository whose primaryLanguage came as an
\* object and one whose primaryLanguage came as a string, null or not at all.
C15_Witness ==
    /\ pc = "done"
    /\ \E i \in DOMAIN all_repo_nodes :
         /\ LanguageIsNamedObject(all_repo_nodes[i])
         /\ SameValue(repo_map[all_repo_nodes[i].name].primaryLanguage, PyStr("Python"))
    /\ \E i \in DOMAIN all_repo_nodes : ~LanguageIsNamedObject(all_repo_nodes[i])

AllBranchesInline ==
    /\ RespOk(1)
    /\ ~RespMore(1)
    /\ \A i \in DOMAIN RespNodes(1) : ~ConnMore(RespNodes(1)[i].refs)

\* C17 (as claimed): when all branches arrive inline, the run issues a single
\* request, which carries the login, and maps each repository to its branch
\* names in the order the upstream returned them.
C17_ListKeepsUpstreamOrder ==
    (pc = "done" /\ AllBranchesInline) =>
        /\ Len(requests) = 1
        /\ requests[1].login = Login
        /\ \A i \in DOMAIN RespNodes(1) :
             LET node == RespNodes(1)[i] IN
             /\ node.name \in DOMAIN result
             /\ result[node.name] = Names(node.refs.nodes)

\* The repository nodes the i-th response holds under the root field that
\* is_org selects: none when that field is missing or null.
SelectedRoot == IF is_org THEN "organization" ELSE "user"
HasRootData(i) ==
    /\ SelectedRoot \in DOMAIN responses[i].data
    /\ responses[i].data[SelectedRoot] # None
RootNodes(i) ==
    IF HasRootData(i) THEN responses[i].data[SelectedRoot].repositories.nodes ELSE <<>>
RECURSIVE RootPages(_, _)
RootPages(first, last) ==
    IF first > last THEN <<>> ELSE RootNodes(first) \o RootPages(first + 1, last)

\* The repository chain has returned and all_repo_nodes is bound.
ReposBound ==
    \/ Len(calls) > 1
    \/ pc \in {"loop", "branches_done", "tags_done", "list_loop", "list_store", "done"}

\* Nothing is stored in any result mapping.
NoResults ==
    /\ repo_map = EmptyDict
    /\ branch_map = EmptyDict
    /\ tag_map = EmptyDict
    /\ result = EmptyDict

\* C18: in both functions the repositories taken are those the responses of
\* the repository chain hold under the root field is_org selects; when the
\* first response holds nothing under it, that request stays the only one,
\* the run does not abort and the result mappings are empty.
C18_RootFieldSelectedByIsOrg ==
    /\ ReposBound => all_repo_nodes = RootPages(CallFirst(1), CallLast(1))
    /\ (responses # <<>> /\ RespOk(1) /\ ~HasRootData(1)) =>
          /\ Len(requests) = 1
          /\ pc \in {"return", "loop", "list_loop", "done"}
          /\ NoResults

\* A run for an organization is done against an upstream that holds
\* repositories under user only: one request, nothing returned.
C18_Witness ==
    /\ pc = "done"
    /\ is_org
    /\ account = "user"
    /\ up # <<>>
    /\ Len(requests) = 1
    /\ NoResults

C20_FatalAborts ==
    \A i \in DOMAIN responses :
        responses[i].status = "fatal" =>
            /\ i = Len(responses)
            /\ Len(requests) = i
            /\ pc = "aborted"

\* The fresh tag fetch of a repository fails after the branches of that
\* repository were stored.
C20_Witness ==
    /\ pc = "aborted"
    /\ responses[Len(responses)].status = "fatal"
    /\ chain.kind = "tags"
    /\ calls[Len(calls)].start = None
    /\ branch_map # EmptyDict
    /\ Len(requests) >= 3

\* A failure the function retries after: HTTP 504, a timeout, a connection
\* error.
Transient(o) ==
    \/ o.kind \in {"Timeout", "ConnectionError"}
    \/ o.kind = "HTTPError" /\ o.status = 504

\* C21: every attempt that another attempt followed, or that a sleep or the
\* loop now follows, failed transiently; a call makes at most max_retries
\* attempts; a call that returns after an attempt returns the data of that
\* attempt, which is its first payload; and when attempt number max_retries
\* fails transiently the call has ended in the fatal error.
C21_RetryOnlyTransientUpToCeiling ==
    /\ Len(outcomes) <= max_retries
    /\ attempt <= max_retries
    /\ \A i \in DOMAIN outcomes :
         (i < Len(outcomes) \/ gql_pc \in {"sleep", "loop"}) => Transient(outcomes[i])
    /\ (gql_pc = "returned" /\ outcomes # <<>>) =>
         /\ outcomes[Len(outcomes)].kind = "payload"
         /\ gql_return = PayloadData(gql_calls, Len(outcomes))
    /\ (outcomes # <<>> /\ Len(outcomes) = max_retries
          /\ Transient(outcomes[Len(outcomes)])) => gql_pc = "fatal"

\* A first call returned the data of a later attempt than its first, and the
\* second call has failed transiently max_retries times.
C21_Witness ==
    /\ gql_calls = 2
    /\ gql_return # None
    /\ gql_return.attempt > 1
    /\ gql_pc = "fatal"
    /\ max_retries = MAX_RETRIES
    /\ Len(outcomes) = max_retries
    /\ \A i \in DOMAIN outcomes : Transient(outcomes[i])

\* A failure the function does not retry after: an HTTP error status other
\* than 504, a payload with errors.
Immediate(o) ==
    \/ o.kind = "HTTPError" /\ o.status # 504
    \/ o.kind = "payload" /\ o.errors # <<>>

\* C22: an attempt that met an HTTP error status other than 504, or a
\* payload with errors, is the last attempt of its call, the call has ended
\* in the fatal error, and the only sleeps of the call are those before
\* that attempt.
C22_OtherFailuresFatalAtOnce ==
    \A i \in DOMAIN outcomes :
        Immediate(outcomes[i]) =>
            /\ i = Len(outcomes)
            /\ attempt = i
            /\ gql_pc = "fatal"
            /\ Len(sleeps) = i - 1

\* The second attempt of three meets HTTP status 401.
C22_Witness ==
    /\ gql_pc = "fatal"
    /\ attempt = 2
    /\ max_retries = MAX_RETRIES
    /\ outcomes[Len(outcomes)].kind = "HTTPError"
    /\ outcomes[Len(outcomes)].status = 401
    /\ Len(sleeps) = 1

\* Every request issued has its answer, and when the running call of the
\* engine has issued a request already, the answer to its last request is
\* consumed: its nodes are in all_nodes, its pageInfo in has_next_page and
\* after_cursor.
Consumed ==
    /\ Len(responses) = Len(requests)
    /\ (calls # <<>> /\ CallFirst(Len(calls)) <= Len(requests)) =>
         /\ RespOk(Len(requests))
         /\ all_nodes = CallNodes(Len(calls))
         /\ has_next_page = RespMore(Len(requests))
         /\ after_cursor = RespCursor(Len(requests))

\* C23: at most one request is without its answer at any time, and a step
\* that issues a request issues one request, in a state where every earlier
\* request has its answer and that answer is consumed.
C23_OneRequestInFlight ==
    /\ [](Len(requests) - Len(responses) \in {0, 1})
    /\ [][requests' # requests =>
            /\ Consumed
            /\ Len(requests') = Len(requests) + 1
            /\ SubSeq(requests', 1, Len(requests)) = requests]_vars

\* A follow-up request of a tag chain awaits its answer, after the chains of
\* the repository list and of some branches.
C23_Witness ==
    /\ pc = "wait"
    /\ Len(responses) = Len(requests) - 1
    /\ chain.kind = "tags"
    /\ CallFirst(Len(calls)) < Len(requests)
    /\ \E j \in DOMAIN calls : calls[j].kind = "branches"

\* The pagination state of the branches, or the tags, of repository r: its
\* list is stored in the mapping (COMPLETE); else a request for it was
\* issued (PAGINATING); else the for loop is at r and the list is seeded
\* from the inline connection (SEEDED_FROM_PARENT); else PENDING_INITIAL.
RefState(kind, r) ==
    LET map == IF kind = "branches" THEN branch_map ELSE tag_map
        seeded == /\ idx > 0
                  /\ repo_name = r
                  /\ kind = "tags" => (r \in DOMAIN branch_map /\ pc # "loop")
    IN  IF r \in DOMAIN map THEN "COMPLETE"
        ELSE IF RequestsFor(kind, r) # {} THEN "PAGINATING"
        ELSE IF seeded THEN "SEEDED_FROM_PARENT"
        ELSE "PENDING_INITIAL"

\* The states that may come right before a state.
Before(state) ==
    CASE state = "PENDING_INITIAL"    -> {"PENDING_INITIAL"}
      [] state = "SEEDED_FROM_PARENT" -> {"PENDING_INITIAL", "SEEDED_FROM_PARENT"}
      [] state = "PAGINATING"         -> {"SEEDED_FROM_PARENT", "PAGINATING"}
      [] state = "COMPLETE"           -> {"SEEDED_FROM_PARENT", "PAGINATING", "COMPLETE"}

\* The mapping of a kind.
MapOf(kind) == IF kind = "branches" THEN branch_map ELSE tag_map

\* C24: for each repository and kind, a step leaves the pagination state
\* where it is or moves it forward along PENDING_INITIAL,
\* SEEDED_FROM_PARENT, PAGINATING, COMPLETE, never past the seeding; and
\* once the state is COMPLETE no request for that repository and kind is
\* issued and its list in the mapping stays as it is.
C24_PaginationStateForward ==
    [][\A kind \in {"branches", "tags"} : \A r \in RepoNames :
          /\ RefState(kind, r) \in Before(RefState(kind, r)')
          /\ RefState(kind, r) = "COMPLETE" =>
               /\ RequestsFor(kind, r)' = RequestsFor(kind, r)
               /\ Len(requests') > Len(requests) =>
                    ~(/\ ReqKind(requests'[Len(requests')]) = kind
                      /\ ReqRepo(requests'[Len(requests')]) = r)
               /\ MapOf(kind)'[r] = MapOf(kind)[r]]_vars

\* The tags of the second repository are COMPLETE after paginating, the
\* branches and tags of the first were COMPLETE before.
C24_Witness ==
    /\ idx = 2
    /\ RefState("tags", repo_name) = "COMPLETE"
    /\ RequestsFor("tags", repo_name) # {}
    /\ RequestsFor("branches", repo_name) # {}
    /\ \E r \in RepoNames \ {repo_name} : RefState("tags", r) = "COMPLETE"

\* The branch and tag aggregation of repository r has completed: its
\* branches are stored and the for loop is past its tag section.
AggregationComplete(r) ==
    /\ r \in DOMAIN branch_map
    /\ repo_name # r \/ pc \in {"loop", "done"}

\* Two metadata records are the same: the same keys with the same values.
SameRecord(a, b) ==
    /\ DOMAIN a = DOMAIN b
    /\ \A k \in DOMAIN a :
         IF k = "primaryLanguage" THEN SameValue(a[k], b[k]) ELSE a[k] = b[k]

\* C25: once the branch and tag aggregation of a repository has completed,
\* no step changes the metadata record of that repository in repo_map.
C25_MetadataFrozen ==
    [][\A r \in RepoNames :
          AggregationComplete(r) =>
              /\ r \in DOMAIN repo_map'
              /\ SameRecord(repo_map'[r], repo_map[r])]_vars

\* C26: every record of the returned branch and tag mappings has a name.
C26_NamesNonEmpty ==
    pc = "done" =>
        /\ \A r \in DOMAIN branch_map : \A i \in DOMAIN branch_map[r] :
             "name" \in DOMAIN branch_map[r][i]
        /\ \A r \in DOMAIN tag_map : \A i \in DOMAIN tag_map[r] :
             "name" \in DOMAIN tag_map[r][i]

\* The repository names the responses of the repository chain hold.
ReturnedNames == { CallNodes(1)[i].name : i \in DOMAIN CallNodes(1) }

\* C27: when the function has returned, repo_map and branch_map have the
\* repository names the upstream returned as their keys, and tag_map has the
\* same keys with include_tags and is empty without.
C27_SameKeySets ==
    pc = "done" =>
        /\ DOMAIN repo_map = ReturnedNames
        /\ DOMAIN branch_map = ReturnedNames
        /\ IF include_tags THEN DOMAIN tag_map = ReturnedNames ELSE tag_map = EmptyDict

\* A run with tags requested has returned two repositories, one of them with
\* no branch and no tag, fetched on two pages.
C27_Witness ==
    /\ pc = "done"
    /\ include_tags
    /\ Cardinality(ReturnedNames) = 2
    /\ CallLast(1) = 2
    /\ \E r \in DOMAIN tag_map : tag_map[r] = <<>> /\ branch_map[r] = <<>>
    /\ \E r \in DOMAIN tag_map : tag_map[r] # <<>>

\* The items of the mapping the running or last call has dealt with.
ItemsDone == { persist_arg[i] : i \in 1..persist_i }

\* A text holds exactly the given names, one per line, in ascending order:
\* every line ends in a line end, the lines that are not empty are the names,
\* each once and ascending, and an empty line occurs only when there is no
\* name at all (the file of a repository with no branch is one empty line).
HoldsSortedNames(text, names) ==
    LET lines == SplitLines(text)
        named == SelectSeq(lines, LAMBDA l : l # <<>>)
    IN  /\ text # <<>> => text[Len(text)] = "\n"
        /\ { named[i] : i \in DOMAIN named } = names
        /\ \A i \in DOMAIN named : \A j \in DOMAIN named :
             i < j => StrLess(named[i], named[j])
        /\ names # {} => named = lines

\* C28: once persist_branches has dealt with a repository of the mapping,
\* the file <repo>.txt holds exactly the distinct branch names of that
\* repository, one per line, in ascending order, whatever it held before.
C28_BranchFileSortedDistinct ==
    persist_fn = "persist_branches" =>
        \A item \in ItemsDone :
            /\ TxtFile(item[1]) \in DOMAIN files
            /\ HoldsSortedNames(files[TxtFile(item[1])],
                                { item[2][i] : i \in DOMAIN item[2] })

\* persist_branches has returned from its first call, which was given a list
\* that names a branch twice and a list that is not in ascending order, and
\* which found a file with other names in it.
C28_Witness ==
    /\ persist_fn = "persist_branches"
    /\ persist_pc = "idle"
    /\ persist_run = 1
    /\ Len(persist_arg) = 2
    /\ \E item \in ItemsDone : Len(item[2]) = 2 /\ item[2][1] = item[2][2]
    /\ \E item \in ItemsDone : Len(item[2]) = 2 /\ StrLess(item[2][2], item[2][1])
    /\ printed # <<>>

\* C29: an iteration of persist_branches prints a report exactly when the
\* file of its repository existed and the set of names in it differs from
\* the set of names of the list, and the report carries the number of names
\* added and the number removed; from the second call with the same mapping
\* on, no iteration prints and no file changes.
C29_ChangeReportedOnce ==
    [][(persist_fn = "persist_branches" /\ persist_i' = persist_i + 1) =>
          LET repo == persist_arg[persist_i + 1][1]
              names == { persist_arg[persist_i + 1][2][i] :
                           i \in DOMAIN persist_arg[persist_i + 1][2] }
              existed == TxtFile(repo) \in DOMAIN files
              old == IF existed THEN StrippedLines(files[TxtFile(repo)]) ELSE {}
          IN  /\ printed' # printed <=> (existed /\ old # names)
              /\ printed' # printed =>
                   /\ Len(printed') = Len(printed) + 1
                   /\ SubSeq(printed', 1, Len(printed)) = printed
                   /\ printed'[Len(printed')].repo = repo
                   /\ printed'[Len(printed')].added = Cardinality(names \ old)
                   /\ printed'[Len(printed')].removed = Cardinality(old \ names)
              /\ persist_run >= 2 => (printed' = printed /\ files' = files)]_vars

\* The second call of persist_branches has returned; the first call reported
\* a repository with a name added and a name removed.
C29_Witness ==
    /\ persist_fn = "persist_branches"
    /\ persist_pc = "idle"
    /\ persist_run = 2
    /\ Len(persist_arg) = 2
    /\ \E i \in DOMAIN printed : printed[i].added > 0 /\ printed[i].removed > 0

\* Reading a member line of a JSON text: its indent, the key between the
\* quotes, the value after the colon.
RECURSIVE LeadingSpaces(_)
LeadingSpaces(line) ==
    IF line = <<>> \/ line[1] # " " THEN 0 ELSE 1 + LeadingSpaces(Tail(line))
Unindented(line) == SubSeq(line, LeadingSpaces(line) + 1, Len(line))
ClosingQuote(rest) ==
    CHOOSE j \in 2..Len(rest) : rest[j] = "\"" /\ \A h \in 2..(j - 1) : rest[h] # "\""
KeyOf(line) == SubSeq(Unindented(line), 2, ClosingQuote(Unindented(line)) - 1)
ValueOf(line) == Unindented(line)[ClosingQuote(Unindented(line)) + 3]

\* A text is the payload as key-sorted JSON with an indent of two: it opens
\* and closes with the braces and ends in a line end, its member lines are
\* indented by two spaces, their keys ascend, and they hold the items of the
\* payload.
IsSortedJsonOf(text, payload) ==
    LET lines == SplitLines(text)
        members == SelectSeq(lines, LAMBDA l : l # <<>> /\ l[1] = " ")
    IN  /\ text[1] = "{"
        /\ text[Len(text)] = "\n"
        /\ text[Len(text) - 1] = "}"
        /\ Len(members) = Len(payload)
        /\ \A i \in DOMAIN members : LeadingSpaces(members[i]) = 2
        /\ \A i \in DOMAIN members : \A j \in DOMAIN members :
             i < j => StrLess(KeyOf(members[i]), KeyOf(members[j]))
        /\ { <<KeyOf(members[i]), ValueOf(members[i])>> : i \in DOMAIN members }
             = { <<payload[i][1], ToString(payload[i][2])>> : i \in DOMAIN payload }

\* C30: once persist_repo_json has dealt with a repository, its file holds
\* the payload as key-sorted JSON with the fixed indent; an iteration prints
\* "JSON updated" exactly when the file did not exist or held something else
\* than what is written; from the second call with the same data on, no
\* iteration prints and no file changes.
C30_JsonCanonicalReportedOnce ==
    /\ [](persist_fn = "persist_repo_json" =>
            \A item \in ItemsDone :
                /\ JsonFile(item[1]) \in DOMAIN files
                /\ IsSortedJsonOf(files[JsonFile(item[1])], item[2]))
    /\ [][(persist_fn = "persist_repo_json" /\ persist_i' = persist_i + 1) =>
            LET file == JsonFile(persist_arg[persist_i + 1][1]) IN
            /\ printed' # printed <=> (file \notin DOMAIN files \/ files[file] # files'[file])
            /\ printed' # printed =>
                 /\ Len(printed') = Len(printed) + 1
                 /\ SubSeq(printed', 1, Len(printed)) = printed
                 /\ printed'[Len(printed')].repo = persist_arg[persist_i + 1][1]
                 /\ printed'[Len(printed')].what = "JSON updated"
            /\ persist_run >= 2 => (printed' = printed /\ files' = files)]_vars

\* The second call of persist_repo_json has returned; the first call wrote a
\* payload whose keys were not inserted in ascending order, reported one
\* repository and found the file of the other as it writes it.
C30_Witness ==
    /\ persist_fn = "persist_repo_json"
    /\ persist_pc = "idle"
    /\ persist_run = 2
    /\ Len(persist_arg) = 2
    /\ Len(printed) = 1
    /\ \E item \in ItemsDone :
         Len(item[2]) = 2 /\ StrLess(item[2][2][1], item[2][1][1])

\* C31: from the second call of persist_branch_json or persist_tag_json with
\* the same mapping on, nothing is printed.
C31_SecondRunSilent ==
    [][(persist_fn \in {"persist_branch_json", "persist_tag_json"} /\ persist_run >= 2)
          => printed' = printed]_vars

\* C38: the records of one repository are written to pairwise distinct
\* files: once the repository is done, each of its records has a file of its
\* own, holding that record's JSON.
C38_DistinctFiles ==
    persist_fn \in {"persist_branch_json", "persist_tag_json"} =>
        \A k \in 1..persist_i :
            LET repo == persist_arg[k][1]
                records == persist_arg[k][2]
            IN  \A i \in DOMAIN records :
                    /\ \A j \in DOMAIN records :
                           i # j => RecordFile(repo, records[i]) # RecordFile(repo, records[j])
                    /\ files[RecordFile(repo, records[i])] = Dumps(records[i], 2, TRUE) \o <<"\n">>

\* The repositories list_repos_branches warned about on stderr.
RestWarned ==
    { printed[i].name : i \in { j \in DOMAIN printed : printed[j].stream = "stderr" } }

\* C32: the REST listing skips a repository whose branch fetch fails fatally:
\* the run never aborts, and each repository the loop has dealt with either
\* is in the result or was warned about and is left out of it, never both.
C32_RestSkipsFailedRepo ==
    fn = "list_repos_branches" =>
        /\ pc # "aborted"
        /\ \A k \in 1..Len(all_repo_nodes) :
              LET name == all_repo_nodes[k].name
              IN  IF k <= idx
                  THEN (name \in DOMAIN result) # (name \in RestWarned)
                  ELSE name \notin DOMAIN result /\ name \notin RestWarned

\* C32 happens: a run returned after the first repository was skipped and
\* the second one stored.
C32_Witness ==
    /\ fn = "list_repos_branches"
    /\ pc = "done"
    /\ Len(all_repo_nodes) = 2
    /\ all_repo_nodes[1].name \in RestWarned
    /\ DOMAIN result = {all_repo_nodes[2].name}

\* The upstream holds repositories of b branches each.
BranchesEach(b) == \A i \in DOMAIN up : Len(up[i].branches) = b

\* C36: against an accurate upstream holding n repositories of b branches
\* each, a returned list_repos_branches_graphql has issued
\* graphql_branches(n, b) requests, for every n >= 0 and b >= 0.
C36_RequestsAsEstimated ==
    (fn = "list" /\ pc = "done" /\ lie = NoLie) =>
        \A b \in 0..MaxRefs :
            BranchesEach(b) => Len(requests) = graphql_branches(Len(up), b)

\* The same where the account has a repository.
C36_RequestsAsEstimatedNonEmpty ==
    (fn = "list" /\ pc = "done" /\ lie = NoLie /\ up # <<>>) =>
        \A b \in 0..MaxRefs :
            BranchesEach(b) => Len(requests) = graphql_branches(Len(up), b)

\* A returned run over two repositories of three branches each.
C36_WitnessNonEmpty ==
    /\ fn = "list" /\ pc = "done" /\ lie = NoLie
    /\ Len(up) = 2 /\ BranchesEach(3) /\ pageSize = 1
    /\ Len(requests) = 6

\* C33: in _github_graphql the i-th wait of a request, the one before
\* attempt i + 1, is 2^i seconds, so the waits strictly increase; a wait only
\* follows an attempt that is not the last one allowed, and neither a
\* success nor the final attempt is followed by one: but for the moment
\* between a wait and the next attempt, the waits are one fewer than the
\* attempts.
C33_BackoffDoubles ==
    /\ \A i \in DOMAIN sleeps : sleeps[i] = 2 ^ i
    /\ \A i \in DOMAIN sleeps : \A j \in DOMAIN sleeps : i < j => sleeps[i] < sleeps[j]
    /\ sleeps # <<>> => Len(sleeps) < max_retries
    /\ Len(sleeps) = IF gql_pc = "loop" \/ attempt = 0 THEN attempt ELSE attempt - 1

\* C33 happens: a request succeeded at its third attempt, after waits of 2
\* and 4 seconds.
C33_Witness ==
    /\ gql_pc = "returned"
    /\ gql_return # None
    /\ attempt = 3
    /\ sleeps = <<2, 4>>

\* C34: API_CALL_COUNT goes up by one with each attempt of _github_graphql,
\* retries included, and changes at no other step, so it never decreases and
\* counts the attempts of the run: in the first request it is the number of
\* attempts, later at least that, and once a retried attempt is made it
\* exceeds the number of requests.
C34_CountsAttempts ==
    /\ [](/\ (gql_calls <= 1 => API_CALL_COUNT = attempt)
          /\ API_CALL_COUNT >= attempt
          /\ (max_retries >= 1 /\ gql_pc # "loop" => API_CALL_COUNT >= gql_calls)
          /\ (sleeps # <<>> /\ gql_pc # "loop" => API_CALL_COUNT > gql_calls))
    /\ [][/\ API_CALL_COUNT' >= API_CALL_COUNT
          /\ (gql_pc = "loop" /\ gql_pc' = "post") <=> (API_CALL_COUNT' = API_CALL_COUNT + 1)
          /\ (gql_pc = "loop" /\ gql_pc' = "post") <=> (attempt' = attempt + 1)
          /\ (API_CALL_COUNT' # API_CALL_COUNT + 1) => API_CALL_COUNT' = API_CALL_COUNT]_vars

\* C34 happens: two requests took four attempts, the second one retried.
C34_Witness ==
    /\ gql_calls = 2
    /\ API_CALL_COUNT = 4
    /\ sleeps # <<>>
    /\ gql_pc = "returned"

\* The names of the refs the upstream holds for a repository.
UpRefNames(kind, r) ==
    LET s == SeqOf(up, <<kind, r>>) IN { s[i].name : i \in DOMAIN s }

\* The inline connection of a kind in the repository node the loop is at.
InlineConnHere(kind) ==
    Get(all_repo_nodes[idx], IF kind = "tags" THEN "tags" ELSE "refs", EmptyDict)

\* C35: every branch or tag request of fetch_repos_full_graphql and of
\* list_repos_branches_graphql carries the login as owner and the name of
\* the repository the loop is at, whose inline connection of that kind asked
\* for it (a next page, or no inline tag at all); and every list stored for
\* a repository holds refs of that repository only.
C35_RequestsNameTheirRepository ==
    /\ [](/\ \A r \in DOMAIN branch_map :
                \A i \in DOMAIN branch_map[r] : branch_map[r][i].name \in UpRefNames("branches", r)
          /\ \A r \in DOMAIN tag_map :
                \A i \in DOMAIN tag_map[r] : tag_map[r][i].name \in UpRefNames("tags", r)
          /\ \A r \in DOMAIN result :
                \A i \in DOMAIN result[r] : result[r][i] \in UpRefNames("branches", r))
    /\ [][requests' # requests =>
            LET v == requests'[Len(requests')]
            IN  ReqKind(v) # "repos" =>
                  /\ idx >= 1
                  /\ v.owner = Login
                  /\ ReqRepo(v) = all_repo_nodes[idx].name
                  /\ ReqRepo(v) = repo_name
                  /\ \/ HasNextPage(Get(InlineConnHere(ReqKind(v)), "pageInfo", EmptyDict))
                     \/ /\ ReqKind(v) = "tags"
                        /\ Get(InlineConnHere("tags"), "nodes", <<>>) = <<>>]_vars

\* C35 happens: in one run both repositories needed a follow-up, and the
\* last request was for the second one.
C35_Witness ==
    /\ Len(all_repo_nodes) = 2
    /\ idx = 2
    /\ \E i \in DOMAIN requests :
          ReqKind(requests[i]) # "repos" /\ ReqRepo(requests[i]) = all_repo_nodes[1].name
    /\ requests # <<>>
    /\ ReqKind(requests[Len(requests)]) # "repos"
    /\ ReqRepo(requests[Len(requests)]) = all_repo_nodes[2].name
    /\ pc = "done"

\* The mapping of every repository the run was given to the sorted distinct
\* names of its branches.
BranchNamesOf(repos) ==
    [r \in { repos[i].name : i \in DOMAIN repos } |->
        SortedList(UpRefNames("branches", r))]

\* C37: for the same upstream, the mapping the cli derives from what
\* fetch_repos_full_graphql returned and the mapping
\* list_repos_branches_graphql returns are the same: each has every
\* repository the run listed, those without branches too, with the sorted
\* distinct names of its branches.
C37_DerivedMapEqualsSimpleMap ==
    (pc = "done" /\ lie = NoLie) =>
        /\ fn = "full" => repo_branch_list_map(branch_map) = BranchNamesOf(all_repo_nodes)
        /\ fn = "list" => result = BranchNamesOf(all_repo_nodes)

\* The same, the repositories without branches left out of the derived map.
C37_DerivedMapOfNonEmpty ==
    (pc = "done" /\ lie = NoLie) =>
        /\ fn = "full" =>
              /\ DOMAIN repo_branch_list_map(branch_map) =
                    { r \in DOMAIN BranchNamesOf(all_repo_nodes) :
                        BranchNamesOf(all_repo_nodes)[r] # <<>> }
              /\ \A r \in DOMAIN repo_branch_list_map(branch_map) :
                    repo_branch_list_map(branch_map)[r] = BranchNamesOf(all_repo_nodes)[r]
        /\ fn = "list" => result = BranchNamesOf(all_repo_nodes)

\* C39: against an upstream whose connections have finitely many pages and
\* an accurate pageInfo, with every request answered or failed, a run of
\* fetch_repos_full_graphql eventually returns its three mappings or aborts.
C39_RunEnds == <>(pc \in {"done", "aborted"})

\* C39 happens: a run returned after the branches and the tags of two
\* repositories were paged through.
C39_Witness ==
    /\ pc = "done"
    /\ Len(all_repo_nodes) = 2
    /\ \A r \in DOMAIN branch_map : CallsFor("branches", r) # {} /\ CallsFor("tags", r) # {}
    /\ DOMAIN branch_map = UpNames

====
